---- MODULE Spec2Model ----
(***************************************************************************)
(* Emulated camera HWL: request admission (EmulatedRequestProcessor),      *)
(* the request-processor loop, the sensor loop (EmulatedSensor) and Flush. *)
(*                                                                         *)
(* Threads: one client thread submitting capture requests (calls are       *)
(* serialised by the session, one HWL request per call), one client thread *)
(* calling Flush, the request-processor thread and the sensor thread.      *)
(***************************************************************************)
EXTENDS Integers, Sequences, FiniteSets, TLC

\* ---------------------------------------------------------------- constants
kPipelineDepth == 3
kZoomSpeedup == 2
\* Times are in milliseconds.
kDefaultFrameDuration == 33
kReturnResultThreshod == 3 * kDefaultFrameDuration
time_accuracy == 2

\* ------------------------------------------------------------------- bounds
\* Number of capture requests the client submits under Spec.
MaxFrame == 5
\* Number of Flush calls under Spec.
MaxFlush == 1
\* Number of capture requests the client submits under SpecRamp.
MaxRampFrame == 4
\* Number of single-request ProcessRequests calls on the process block.
MaxBlockFrame == 3
\* Number of ConfigurePipeline calls the backend receives.
MaxConfigure == 2
\* Stream ids and buffer ids of a stream of the session.
MaxStream == 2
MaxBuffer == 1
MaxSessionFrame == 2
MaxBufferFrame == 3
MaxOutputBuffers == 2
\* ConfigureStreams calls, stream ids and requests of the ZSL request processor.
MaxZslConfigure == 2
MaxZslStream == 2
MaxZslFrame == 2
\* Output buffers of the request under SpecOwnership.
MaxOwnedBuffers == 2
\* Frames the sensor paces under SpecPacing, and the latest nanosleep returns
\* after the time it was asked for.
MaxPacedFrame == 3
MaxOvershoot == 1

\* ----------------------------------------------------------------- metadata
\* A HalCameraMetadata snapshot, reduced to what the request processor reads:
\* the ANDROID_CONTROL_SETTINGS_OVERRIDE entry ("absent", "off", "zoom") and the
\* zoom value the snapshot carries (the frame number of the request it came
\* with identifies it). A null unique_ptr is NullSettings.
NullSettings == [ovr |-> "null", zoom |-> 0]

MakeSettings(kind, frame_number) ==
    IF kind = "null" THEN NullSettings ELSE [ovr |-> kind, zoom |-> frame_number]

\* Request kinds the client draws from.
SpecKinds == {"absent"}
RampKinds == {"absent", "off", "zoom", "null"}

\* -------------------------------------------------------------- the latch
\* The latched set of EmulatedSensor (current_settings_, current_result_,
\* current_output_buffers_, partial_result_): each field holds the frame number
\* of the request that installed it, 0 for a null pointer.
NullLatch == [settings |-> 0, result |-> 0, output_buffers |-> 0, partial_result |-> 0]

Latch(frame_number) ==
    [settings |-> frame_number, result |-> frame_number,
     output_buffers |-> frame_number, partial_result |-> frame_number]

\* ------------------------------------------------------------------ events
\* The log holds the callbacks the client has received, in order.
Event(type, frame_number) == [type |-> type, frame |-> frame_number]

FramesOf(q) == {q[i].frame_number : i \in 1..Len(q)}

EventIndexes(log, type, f) == {i \in 1..Len(log) : log[i].type = type /\ log[i].frame = f}

Count(log, type, f) == Cardinality(EventIndexes(log, type, f))

IsResult(e) == e.type \in {"partial", "final"}


\* ------------------------------------------------- deferred-settings queue
\* Mutant of PushOverride: the entry is put at the head of the queue.
PushOverride_Front(queue, frame_number, settings) ==
    IF settings # NullSettings
    THEN IF settings.ovr \in {"off", "zoom"}
         THEN <<[settings |-> settings, frame_number |-> frame_number]>> \o queue
         ELSE queue
    ELSE <<[settings |-> NullSettings, frame_number |-> frame_number]>> \o queue

\* ProcessPipelineRequests, the override_settings_ part: a request with
\* settings queues a clone when the override entry is present (count == 1), a
\* request without settings queues a "repeat previous" entry.
PushOverride(queue, frame_number, settings) ==
    IF settings # NullSettings
    THEN IF settings.ovr \in {"off", "zoom"}
         THEN Append(queue, [settings |-> settings, frame_number |-> frame_number])
         ELSE queue
    ELSE Append(queue, [settings |-> NullSettings, frame_number |-> frame_number])

\* Mutant of GapReached: the walk never stops at an entry.
GapReached_Never(override_frame_number, frame_number) == FALSE

\* Mutant of GapReached: the window is one frame short.
GapReached_OffByOne(override_frame_number, frame_number) ==
    IF override_frame_number >= frame_number
    THEN override_frame_number - frame_number >= kZoomSpeedup - 1
    ELSE TRUE

\* override_frame_number - frame_number >= kZoomSpeedup on uint32_t operands:
\* for override_frame_number < frame_number the difference wraps around to
\* 2^32 - (frame_number - override_frame_number), which is at least
\* kZoomSpeedup for all frame numbers of the model.
GapReached(override_frame_number, frame_number) ==
    IF override_frame_number >= frame_number
    THEN override_frame_number - frame_number >= kZoomSpeedup
    ELSE TRUE

\* ApplyOverrideZoom for the six keys: the override's values replace the
\* request's.
ApplyOverrideZoom(override_setting, request_settings) ==
    [request_settings EXCEPT !.ovr = override_setting.ovr, !.zoom = override_setting.zoom]

\* Mutant of OverrideFrameNumber: the target is returned whatever the flag.
OverrideFrameNumber_Always(overriding, override_frame_number) == override_frame_number

\* Lines 606-609: the target of the entry the walk stops at when its override
\* is ZOOM, else 0.
OverrideFrameNumber(overriding, override_frame_number) ==
    IF overriding THEN override_frame_number ELSE 0

\* ApplyOverrideSettings. The result holds the queue, the (mutated) request
\* settings and last_override_settings_ after the call, the returned frame
\* number, and crash = TRUE when the call dereferences a null
\* last_override_settings_ (override_setting->Get on a null unique_ptr).
RECURSIVE ApplyOverrideSettings(_, _, _, _)
ApplyOverrideSettings(queue, frame_number, request_settings, last_override) ==
    IF queue = <<>> \/ request_settings = NullSettings
    THEN [queue |-> queue, settings |-> request_settings,
          last_override |-> last_override, ret |-> 0, crash |-> FALSE]
    ELSE LET override_frame_number == Head(queue).frame_number
             repeatingOverride == Head(queue).settings = NullSettings
             override_setting == IF repeatingOverride THEN last_override
                                 ELSE Head(queue).settings
         IN IF override_setting = NullSettings
            THEN [queue |-> queue, settings |-> request_settings,
                  last_override |-> last_override, ret |-> 0, crash |-> TRUE]
            ELSE LET overriding == override_setting.ovr = "zoom"
                     new_settings == IF overriding
                                     THEN ApplyOverrideZoom(override_setting, request_settings)
                                     ELSE request_settings
                     new_last == IF ~repeatingOverride THEN override_setting
                                 ELSE last_override
                 IN IF GapReached(override_frame_number, frame_number)
                    THEN [queue |-> Tail(queue), settings |-> new_settings,
                          last_override |-> new_last,
                          ret |-> OverrideFrameNumber(overriding, override_frame_number),
                          crash |-> FALSE]
                    ELSE ApplyOverrideSettings(Tail(queue), frame_number,
                                               new_settings, new_last)

\* EmulatedLogicalRequestState::InitializeLogicalSettings: fails on a null
\* settings clone.
InitializeLogicalSettings(settings) == settings # NullSettings

\* ---------------------------------------------------------------- variables
VARIABLES
    pending_requests_,        \* queue of admitted requests
    override_settings_,       \* deferred-settings queue
    last_settings_,           \* last valid request settings
    last_override_settings_,  \* last non-repeating override
    process_mutex_,           \* "free", or "flush" while Flush holds it
    current,                  \* the latched set of the sensor
    got_vsync_,
    partial_supported,        \* partial result count of the device is non-zero
    next_frame,               \* the client's next frame number
    client_pc, client_req, submit_ret,
    loop_pc,
    sensor_pc, next, callback, returned_early,
    flush_pc, flush_count, flush_ret,
    events,                   \* callbacks delivered to the client, in order
    crashed,
    \* history
    timed_out, timeout_len,
    buffer_fate,              \* set of [frame_number, fate] of requests whose buffers failed
    flush_queued, flush_inflight, flush_errors, flush_timeout_seen,
    zoom_queued, last_apply

\* RealtimeProcessBlock, its backend (CameraDeviceSessionHwl) and its result
\* processor.
VARIABLES
    is_configured_,
    pipeline_id_,
    result_processor_,        \* TRUE when a result processor is set
    configure_calls,          \* ConfigurePipeline calls received by the backend
    submitted,                \* frame numbers passed to SubmitRequests, in order
    rp_pending,               \* frame numbers passed to AddPendingRequests
    rp_received,              \* what the last callback handed to the result processor
    delivered,                \* what the backend delivered in its last callback
    completed,                \* submitted frames whose result reached the processor
    block_frame,              \* frame number of the next ProcessRequests call
    block_ret,                \* the last call on the block and its status
    block_call                \* history: the last ProcessRequests call

block_vars == <<is_configured_, pipeline_id_, result_processor_, configure_calls,
                submitted, rp_pending, rp_received, delivered, completed,
                block_frame, block_ret, block_call>>

\* CameraDeviceSession: the imported buffer handle map and the pending
\* request records.
VARIABLES
    configured_streams_map_,      \* ids of the configured streams
    imported_buffer_handle_map_,  \* set of [stream_id, buffer_id, handle] entries
    cache_op,                     \* the last call on the map and its outcome
    pending_request_streams_,     \* set of [frame_number, streams] records
    expected_streams,             \* history: the records as they were at admission
    resolve_count,                \* history: <<frame, stream>> -> removals reported OK
    session_frame,                \* frame number of the next admitted request
    tracker_op                    \* the last call on the records and its outcome

cache_vars == <<configured_streams_map_, imported_buffer_handle_map_, cache_op>>
tracker_vars == <<pending_request_streams_, expected_streams, resolve_count,
                  session_frame, tracker_op>>
session_vars == <<cache_vars, tracker_vars>>

\* RealtimeZslRequestProcessor, the internal stream manager it registers its
\* stream with, and the result path back to the caller.
VARIABLES
    stream_id_,               \* id of the registered internal stream, -1 when none
    process_block_,           \* TRUE when a process block is set
    internal_streams,         \* ids registered with the internal stream manager
    zsl_stream_config,        \* stream ids handed to the process block
    zsl_configures,           \* history: ConfigureStreams calls
    zsl_registrations,        \* history: RegisterNewInternalStream calls
    zsl_frame,                \* frame number of the next ProcessRequest call
    zsl_inflight,             \* forwarded requests: set of [frame_number, streams]
    zsl_result                \* the last result that reached the caller

zsl_vars == <<stream_id_, process_block_, internal_streams, zsl_stream_config,
              zsl_configures, zsl_registrations, zsl_frame, zsl_inflight, zsl_result>>

\* The stream buffers of one request on their way through CreateSensorBuffers
\* and AcquireBuffers; a buffer is named by its index in the request.
VARIABLES
    owned_request,            \* the request's buffers and what befalls each
    owned_pc,                 \* "idle", "created" or "acquired"
    obtained,                 \* buffers request_stream_buffers handed out
    returned,                 \* buffers given to return_stream_buffers
    sensor_buffers,           \* buffers of the Buffers vector queued with the request
    handed_on                 \* buffers of the vector handed to SetCurrentRequest

ownership_vars == <<owned_request, owned_pc, obtained, returned,
                    sensor_buffers, handed_on>>

\* The real-time side of EmulatedSensor::threadLoop for a run of frames latched
\* back to back.
VARIABLES
    now,                      \* the system time
    frame_duration,           \* the frame duration of the settings, 0 before the first frame
    frame_end_real_time,
    paced_pc,                 \* "swap", "capture" or "blank"
    paced_frame,              \* the frame the loop is working on
    paced_returned,           \* ReturnResults has run early for the frame
    deliveries                \* the time ReturnResults delivered each frame at

pacing_vars == <<now, frame_duration, frame_end_real_time, paced_pc, paced_frame,
                 paced_returned, deliveries>>
\* The four locks of the submission and result paths and the threads that
\* take them.
VARIABLES
    held,            \* thread -> the locks it holds
    lock_pc,         \* thread -> its position
    lock_got_vsync   \* got_vsync_ as the threads of the lock model see it

lock_vars == <<held, lock_pc, lock_got_vsync>>

\* The client's submitting thread, its flushing thread, its configuring
\* thread, the request-processor thread and the sensor thread.
Threads == {"submit", "flush", "configure", "loop", "sensor"}

\* Where each thread starts: the clients outside any call, the loops at the top
\* of their iteration.
StartPc(t) == CASE t = "loop" -> "process" [] t = "sensor" -> "swap" [] OTHER -> "idle"
hal_vars == <<block_vars, session_vars, zsl_vars, ownership_vars, pacing_vars, lock_vars>>

processor_vars == <<pending_requests_, override_settings_, last_settings_,
                    last_override_settings_, process_mutex_>>
sensor_vars == <<current, got_vsync_, sensor_pc, next, callback, returned_early>>
client_vars == <<next_frame, client_pc, client_req, submit_ret, timed_out, timeout_len,
                buffer_fate,
                zoom_queued>>
flush_vars == <<flush_pc, flush_count, flush_ret, flush_queued, flush_inflight,
                flush_errors, flush_timeout_seen>>
hwl_vars == <<processor_vars, sensor_vars, client_vars, flush_vars, partial_supported,
              loop_pc, events, crashed, last_apply>>
vars == <<hwl_vars, hal_vars>>

NoRequest == [frame_number |-> 0, settings |-> NullSettings, output_buffers |-> 0,
              obtainable |-> TRUE]
NoCacheOp == [op |-> "none", stream_id |-> 0, buffer_id |-> 0, handle |-> 0,
              status |-> "none", hit |-> FALSE, freed |-> {}]
NoTrackerOp == [op |-> "none", frame_number |-> 0, stream_id |-> 0, status |-> "none",
                outstanding |-> FALSE, completion |-> FALSE, flush |-> FALSE]
NoZslResult == [frame_number |-> 0, streams |-> {}, raw |-> {}]
NoApply == [frame_number |-> 0, with_settings |-> FALSE, ret |-> 0, queue |-> <<>>,
            after |-> <<>>, last_override |-> NullSettings]

Init ==
    /\ pending_requests_ = <<>>
    /\ override_settings_ = <<>>
    /\ last_settings_ = NullSettings
    /\ last_override_settings_ = NullSettings
    /\ process_mutex_ = "free"
    /\ current = NullLatch
    /\ got_vsync_ = FALSE
    /\ partial_supported \in BOOLEAN
    /\ next_frame = 1
    /\ client_pc = "idle"
    /\ client_req = NoRequest
    /\ submit_ret = [frame_number |-> 0, status |-> "none"]
    /\ loop_pc = "process"
    /\ sensor_pc = "swap"
    /\ next = NullLatch
    /\ callback = FALSE
    /\ returned_early = FALSE
    /\ flush_pc = "idle"
    /\ flush_count = 0
    /\ flush_ret = "none"
    /\ events = <<>>
    /\ crashed = FALSE
    /\ timed_out = {}
    /\ buffer_fate = {}
    /\ timeout_len = 0
    /\ flush_queued = {}
    /\ flush_inflight = {}
    /\ flush_errors = 0
    /\ flush_timeout_seen = FALSE
    /\ zoom_queued = {}
    /\ last_apply = NoApply
    /\ is_configured_ = FALSE
    /\ pipeline_id_ = 0
    /\ result_processor_ = FALSE
    /\ configure_calls = 0
    /\ submitted = <<>>
    /\ rp_pending = <<>>
    /\ rp_received = <<>>
    /\ delivered = [kind |-> "none", items |-> <<>>, processor |-> FALSE]
    /\ completed = {}
    /\ block_frame = 1
    /\ block_ret = [op |-> "none", status |-> "none"]
    /\ block_call = [size |-> 0, add_res |-> "OK", processor |-> FALSE]
    /\ configured_streams_map_ = {}
    /\ imported_buffer_handle_map_ = {}
    /\ cache_op = NoCacheOp
    /\ pending_request_streams_ = {}
    /\ expected_streams = {}
    /\ resolve_count = [pair \in {} |-> 0]
    /\ session_frame = 1
    /\ tracker_op = NoTrackerOp
    /\ stream_id_ = -1
    /\ process_block_ = FALSE
    /\ internal_streams = {}
    /\ zsl_stream_config = {}
    /\ zsl_configures = 0
    /\ zsl_registrations = 0
    /\ zsl_frame = 1
    /\ zsl_inflight = {}
    /\ zsl_result = NoZslResult
    /\ owned_request = <<>>
    /\ owned_pc = "idle"
    /\ obtained = {}
    /\ returned = {}
    /\ sensor_buffers = {}
    /\ handed_on = {}
    /\ now = 0
    /\ frame_duration = 0
    /\ frame_end_real_time = 0
    /\ paced_pc = "swap"
    /\ paced_frame = 1
    /\ paced_returned = FALSE
    /\ deliveries = <<>>
    /\ held = [t \in Threads |-> {}]
    /\ lock_pc = [t \in Threads |-> StartPc(t)]
    /\ lock_got_vsync = FALSE


\* ------------------------------------------------- ProcessPipelineRequests
\* while (pending_requests_.size() > EmulatedSensor::kPipelineDepth)
AdmissionBlocked(queue) == Len(queue) > kPipelineDepth

\* Mutant of PushPending: the request is put at the head of the queue.
PushPending_Front(queue, req) == <<req>> \o queue

\* pending_requests_.push
PushPending(queue, req) == Append(queue, req)

\* A null Buffers pointer.
NullBuffers == -1

Fate(frame_number, fate) == [frame_number |-> frame_number, fate |-> fate]

\* History: what happened to the output buffers of a request at admission
\* and at the acquire fence waits.
AdmissionFate(req) ==
    IF req.output_buffers = 0 THEN {Fate(req.frame_number, "empty")}
    ELSE IF ~req.obtainable THEN {Fate(req.frame_number, "request_failed")}
    ELSE {}

FenceFate(request, fence_failed) ==
    IF request.output_buffers > 0 /\ fence_failed >= request.output_buffers
    THEN {Fate(request.frame_number, "fence_failed")}
    ELSE IF fence_failed > 0 THEN {Fate(request.frame_number, "fence_partial")}
    ELSE {}

\* CreateSensorBuffers, by the number of sensor buffers it yields: a null
\* pointer for an empty request vector, an empty vector when a buffer could
\* not be requested, otherwise one sensor buffer per requested buffer.
CreateSensorBuffers(buffers, obtainable) ==
    IF buffers = 0 THEN NullBuffers
    ELSE IF ~obtainable THEN 0
    ELSE buffers

\* Mutant of AcquireBuffers: the buffers whose fence wait failed are kept.
AcquireBuffers_KeepsFailed(buffers, fence_failed) ==
    IF buffers = NullBuffers \/ buffers = 0 THEN NullBuffers
    ELSE buffers

\* AcquireBuffers: a null pointer for a null or empty vector, otherwise the
\* buffers whose acquire fence wait succeeded.
AcquireBuffers(buffers, fence_failed) ==
    IF buffers = NullBuffers \/ buffers = 0 THEN NullBuffers
    ELSE IF fence_failed >= buffers THEN 0
    ELSE buffers - fence_failed

\* After the wait (lines 110-146): NO_MEMORY when CreateSensorBuffers yields a
\* null pointer for the output buffers, otherwise the two pushes that admit
\* the request.
Admit(req) ==
    LET output_buffers == CreateSensorBuffers(req.output_buffers, req.obtainable)
    IN IF output_buffers = NullBuffers
       THEN /\ submit_ret' = [frame_number |-> req.frame_number, status |-> "NO_MEMORY"]
            /\ client_pc' = "idle"
            /\ buffer_fate' = buffer_fate \cup AdmissionFate(req)
            /\ UNCHANGED <<pending_requests_, override_settings_, zoom_queued>>
       ELSE /\ override_settings_' = PushOverride(override_settings_, req.frame_number,
                                                  req.settings)
            /\ pending_requests_' =
                   PushPending(pending_requests_,
                               [req EXCEPT !.output_buffers = output_buffers])
            /\ zoom_queued' = IF req.settings.ovr = "zoom"
                              THEN zoom_queued \cup {req.frame_number}
                              ELSE zoom_queued
            /\ submit_ret' = [frame_number |-> req.frame_number, status |-> "OK"]
            /\ client_pc' = "idle"
            /\ buffer_fate' = buffer_fate \cup AdmissionFate(req)

\* Mutant of ReturnTimedOut: the request was queued before the wait.
ReturnTimedOut_AfterPush(req) ==
    /\ submit_ret' = [frame_number |-> req.frame_number, status |-> "TIMED_OUT"]
    /\ timed_out' = timed_out \cup {req.frame_number}
    /\ client_pc' = "idle"
    /\ pending_requests_' = Append(pending_requests_, req)
    /\ UNCHANGED <<override_settings_, zoom_queued, buffer_fate>>

\* The wait_for timed out: return TIMED_OUT before anything is pushed.
ReturnTimedOut(req) ==
    /\ submit_ret' = [frame_number |-> req.frame_number, status |-> "TIMED_OUT"]
    /\ timed_out' = timed_out \cup {req.frame_number}
    /\ client_pc' = "idle"
    /\ UNCHANGED <<pending_requests_, override_settings_, zoom_queued, buffer_fate>>

\* The client calls ProcessPipelineRequests with its next frame number and one
\* request, takes process_mutex_ and either waits for a slot or admits.
ProcessPipelineRequests(kind, output_buffers, obtainable, max_frame) ==
    /\ ~crashed
    /\ client_pc = "idle"
    /\ next_frame <= max_frame
    /\ process_mutex_ = "free"
    /\ LET req == [frame_number |-> next_frame,
                   settings |-> MakeSettings(kind, next_frame),
                   output_buffers |-> output_buffers,
                   obtainable |-> obtainable]
       IN /\ client_req' = req
          /\ next_frame' = next_frame + 1
          /\ IF AdmissionBlocked(pending_requests_)
             THEN /\ client_pc' = "cv_wait"
                  /\ UNCHANGED <<pending_requests_, override_settings_, submit_ret,
                                 zoom_queued, buffer_fate>>
             ELSE Admit(req)
    /\ UNCHANGED <<last_settings_, last_override_settings_, process_mutex_,
                   sensor_vars, flush_vars, partial_supported, hal_vars, loop_pc, events,
                   crashed, last_apply, timed_out, timeout_len>>

\* request_condition_.wait_for returns cv_status::timeout.
AdmissionTimeout ==
    /\ ~crashed
    /\ client_pc = "cv_wait"
    /\ client_pc' = "cv_timeout"
    /\ timeout_len' = Len(pending_requests_)
    /\ UNCHANGED <<processor_vars, sensor_vars, flush_vars, partial_supported, hal_vars,
                   loop_pc, events, crashed, last_apply, next_frame, client_req,
                   submit_ret, timed_out, buffer_fate, zoom_queued>>

\* A spurious wake-up of request_condition_.wait_for.
AdmissionSpuriousWake ==
    /\ ~crashed
    /\ client_pc = "cv_wait"
    /\ client_pc' = "cv_woken"
    /\ UNCHANGED <<processor_vars, sensor_vars, flush_vars, partial_supported, hal_vars,
                   loop_pc, events, crashed, last_apply, next_frame, client_req,
                   submit_ret, timed_out, timeout_len, buffer_fate, zoom_queued>>

\* wait_for returns with process_mutex_ re-acquired: TIMED_OUT after a
\* timeout, otherwise the while condition is evaluated again.
AdmissionResume ==
    /\ ~crashed
    /\ client_pc \in {"cv_woken", "cv_timeout"}
    /\ process_mutex_ = "free"
    /\ IF client_pc = "cv_timeout"
       THEN ReturnTimedOut(client_req)
       ELSE /\ UNCHANGED timed_out
            /\ IF AdmissionBlocked(pending_requests_)
               THEN /\ client_pc' = "cv_wait"
                    /\ UNCHANGED <<pending_requests_, override_settings_, submit_ret,
                                   zoom_queued, buffer_fate>>
               ELSE Admit(client_req)
    /\ UNCHANGED <<last_settings_, last_override_settings_, process_mutex_,
                   sensor_vars, flush_vars, partial_supported, hal_vars, loop_pc, events,
                   crashed, last_apply, next_frame, client_req>>
    /\ timeout_len' = 0


\* ---------------------------------------------------- RequestProcessorLoop
\* Mutant of SetCurrentRequest: current_result_ is left as it was.
SetCurrentRequest_KeepsResult(frame_number) ==
    [Latch(frame_number) EXCEPT !.result = current.result]

\* EmulatedSensor::SetCurrentRequest: the five members are replaced together
\* under control_mutex_.
SetCurrentRequest(frame_number) == Latch(frame_number)

\* request_condition_.notify_one(): the waiting submitter, if any, is woken.
NotifyOne(pc) == IF pc = "cv_wait" THEN "cv_woken" ELSE pc

\* One iteration's critical section under process_mutex_ (lines 454-543).
\* fence_failed of the request's output buffers fail their acquire fence wait.
RequestProcessorLoop(fence_failed) ==
    /\ ~crashed
    /\ loop_pc = "process"
    /\ process_mutex_ = "free"
    /\ IF pending_requests_ = <<>>
       THEN /\ fence_failed = 0
            /\ loop_pc' = "vsync"
            /\ UNCHANGED <<processor_vars, current, events, crashed, last_apply,
                           client_pc, buffer_fate>>
       ELSE LET request == Head(pending_requests_)
                frame_number == request.frame_number
                output_buffers == AcquireBuffers(request.output_buffers, fence_failed)
                request_settings == IF request.settings # NullSettings
                                    THEN request.settings ELSE last_settings_
                applied == ApplyOverrideSettings(override_settings_, frame_number,
                                                 request_settings,
                                                 last_override_settings_)
                ret == InitializeLogicalSettings(applied.settings)
            IN IF fence_failed > request.output_buffers
               THEN FALSE
               ELSE IF output_buffers = NullBuffers \/ output_buffers = 0
               THEN /\ events' = Append(events, Event("error_result", frame_number))
                    /\ pending_requests_' = Tail(pending_requests_)
                    /\ client_pc' = NotifyOne(client_pc)
                    /\ loop_pc' = "vsync"
                    /\ buffer_fate' = buffer_fate \cup FenceFate(request, fence_failed)
                    /\ UNCHANGED <<override_settings_, last_settings_,
                                   last_override_settings_, process_mutex_, current,
                                   crashed, last_apply>>
               ELSE IF applied.crash
               THEN /\ crashed' = TRUE
                    /\ UNCHANGED <<processor_vars, current, events, last_apply,
                                   client_pc, loop_pc, buffer_fate>>
               ELSE /\ buffer_fate' = buffer_fate \cup FenceFate(request, fence_failed)
                    /\ override_settings_' = applied.queue
                    /\ last_override_settings_' = applied.last_override
                    /\ last_settings_' = applied.settings
                    /\ last_apply' = [frame_number |-> frame_number,
                                      with_settings |-> request_settings # NullSettings,
                                      ret |-> applied.ret,
                                      queue |-> override_settings_,
                                      after |-> applied.queue,
                                      last_override |-> last_override_settings_]
                    /\ IF ret
                       THEN /\ current' = SetCurrentRequest(frame_number)
                            /\ UNCHANGED events
                       ELSE /\ events' = Append(events, Event("error_result", frame_number))
                            /\ UNCHANGED current
                    /\ pending_requests_' = Tail(pending_requests_)
                    /\ client_pc' = NotifyOne(client_pc)
                    /\ loop_pc' = "vsync"
                    /\ UNCHANGED <<process_mutex_, crashed>>
    /\ UNCHANGED <<got_vsync_, sensor_pc, next, callback, returned_early, flush_vars,
                   partial_supported, hal_vars, next_frame, client_req, submit_ret,
                   timed_out, timeout_len, zoom_queued>>

\* WaitForVSync, entry: got_vsync_ = false under control_mutex_, then the
\* thread blocks in vsync_.waitRelative.
LoopWaitForVSync ==
    /\ ~crashed
    /\ loop_pc = "vsync"
    /\ got_vsync_' = FALSE
    /\ loop_pc' = "vs_wait"
    /\ UNCHANGED <<processor_vars, current, sensor_pc, next, callback, returned_early,
                   client_vars, flush_vars, partial_supported, hal_vars, events, crashed,
                   last_apply>>

\* vsync_.waitRelative returns TIMED_OUT (or spuriously) in the loop thread.
LoopWaitTimeout ==
    /\ ~crashed
    /\ loop_pc = "vs_wait"
    /\ loop_pc' = "vs_woken"
    /\ UNCHANGED <<processor_vars, sensor_vars, client_vars, flush_vars,
                   partial_supported, hal_vars, events, crashed, last_apply>>

\* Mutant of WaitForVSyncLocked: the wait returns whatever got_vsync_ is.
WaitForVSyncLocked_ReturnsAtOnce(got_vsync) == "return"

\* Mutant of WaitForVSyncLocked: the wait goes round its loop for ever.
WaitForVSyncLocked_NeverReturns(got_vsync) == "vs_wait"

\* while (!got_vsync_), evaluated with control_mutex_ re-acquired: OK and
\* TIMED_OUT both go round the loop again.

WaitForVSyncLocked(got_vsync) == IF got_vsync THEN "return" ELSE "vs_wait"

LoopWaitReturn ==
    /\ ~crashed
    /\ loop_pc = "vs_woken"
    /\ loop_pc' = IF WaitForVSyncLocked(got_vsync_) = "return" THEN "process" ELSE "vs_wait"
    /\ UNCHANGED <<processor_vars, sensor_vars, client_vars, flush_vars,
                   partial_supported, hal_vars, events, crashed, last_apply>>


\* ------------------------------------------------ EmulatedSensor::threadLoop
\* Threads blocked in vsync_.waitRelative.
VSyncWaiters ==
    {t \in {"loop", "flush"} :
        (t = "loop" /\ loop_pc = "vs_wait") \/ (t = "flush" /\ flush_pc = "vs_wait")}

\* Stage 1 (lines 789-801): the latched set is swapped into the locals,
\* got_vsync_ is set and vsync_.signal() wakes one waiter.
SensorSwap ==
    /\ ~crashed
    /\ sensor_pc = "swap"
    /\ next' = current
    /\ current' = NullLatch
    /\ callback' = FALSE
    /\ returned_early' = FALSE
    /\ got_vsync_' = TRUE
    /\ \E w \in (IF VSyncWaiters = {} THEN {"none"} ELSE VSyncWaiters) :
          /\ loop_pc' = IF w = "loop" THEN "vs_woken" ELSE loop_pc
          /\ flush_pc' = IF w = "flush" THEN "vs_woken" ELSE flush_pc
    /\ sensor_pc' = "capture"
    /\ UNCHANGED <<processor_vars, client_vars, flush_count, flush_ret, flush_queued,
                   flush_inflight, flush_errors, flush_timeout_seen,
                   partial_supported, hal_vars, events, crashed, last_apply>>

\* Mutant of NotifyShutter: the notification is not sent.
NotifyShutter_Skipped(log, frame_number) == log

\* callback.notify with the kShutter message of the frame (lines 852-863).
NotifyShutter(log, frame_number) == Append(log, Event("shutter", frame_number))

\* Stage 2 (lines 852-863 and the synthesis): with buffers and settings the
\* request's callback is taken from next_buffers->at(0) and the shutter
\* notification is sent; at(0) on an empty vector ends the process.
SensorCapture ==
    /\ ~crashed
    /\ sensor_pc = "capture"
    /\ IF next.output_buffers # 0 /\ next.settings # 0
       THEN IF next.output_buffers < 0
            THEN /\ crashed' = TRUE
                 /\ UNCHANGED <<callback, events, sensor_pc>>
            ELSE /\ callback' = TRUE
                 /\ events' = NotifyShutter(events, next.output_buffers)
                 /\ sensor_pc' = "work_done"
                 /\ UNCHANGED crashed
       ELSE /\ sensor_pc' = "work_done"
            /\ UNCHANGED <<callback, events, crashed>>
    /\ UNCHANGED <<processor_vars, current, got_vsync_, next, returned_early,
                   client_vars, flush_vars, partial_supported, hal_vars, loop_pc, last_apply>>

\* Mutant of ReturnResults: the result is handed on without the tests of the
\* callback and of the result.
ReturnResults_Unguarded(log, cb, result, partial_count) ==
    Append(IF partial_count # 0 THEN Append(log, Event("partial", result)) ELSE log,
           Event("final", result))

\* ReturnResults (lines 1289-1435): with a callback and a result, the partial
\* result (when its partial result count is non-zero) and then the result are
\* handed to process_pipeline_result.
ReturnResults(log, cb, result, partial_count) ==
    IF cb /\ result # 0
    THEN Append(IF partial_count # 0 THEN Append(log, Event("partial", result)) ELSE log,
                Event("final", result))
    ELSE log

\* Mutant of MovedFrom: the arguments are passed by reference and stay set.
MovedFrom_NotMoved(locals) == locals

\* The locals after a ReturnResults call: settings, next_result and
\* partial_result were moved into the by-value parameters.
MovedFrom(locals) == [locals EXCEPT !.settings = 0, !.result = 0, !.partial_result = 0]

PartialCount == IF partial_supported THEN 1 ELSE 0

\* Lines 1264-1267: under a tight deadline the results are returned before
\* the sleep; `early` is the outcome of the clock comparison.
SensorReturnEarly(early) ==
    /\ ~crashed
    /\ sensor_pc = "work_done"
    /\ IF early
       THEN /\ events' = ReturnResults(events, callback, next.result, PartialCount)
            /\ next' = MovedFrom(next)
       ELSE UNCHANGED <<events, next>>
    /\ returned_early' = early
    /\ sensor_pc' = "slept"
    /\ UNCHANGED <<processor_vars, current, got_vsync_, callback, client_vars,
                   flush_vars, partial_supported, hal_vars, loop_pc, crashed, last_apply>>

\* Lines 1283-1284: the call after the sleep; threadLoop returns true and is
\* entered again.
SensorReturnFinal ==
    /\ ~crashed
    /\ sensor_pc = "slept"
    /\ events' = ReturnResults(events, callback, next.result, PartialCount)
    /\ next' = MovedFrom(next)
    /\ sensor_pc' = "swap"
    /\ UNCHANGED <<processor_vars, current, got_vsync_, callback, returned_early,
                   client_vars, flush_vars, partial_supported, hal_vars, loop_pc, crashed,
                   last_apply>>


\* -------------------------------------------------------------------- Flush
\* Frames the sensor holds when Flush is called: the latched one and the one
\* whose results the sensor loop has not returned yet.
InFlight == {current.output_buffers, next.result} \ {0, -1}

\* EmulatedRequestProcessor::Flush takes process_mutex_ and calls
\* EmulatedSensor::Flush, which resets got_vsync_ and blocks in
\* WaitForVSyncLocked.
Flush(max_flush) ==
    /\ ~crashed
    /\ flush_pc = "idle"
    /\ flush_count < max_flush
    /\ process_mutex_ = "free"
    /\ process_mutex_' = "flush"
    /\ got_vsync_' = FALSE
    /\ flush_pc' = "vs_wait"
    /\ flush_count' = flush_count + 1
    /\ flush_ret' = "none"
    /\ flush_queued' = FramesOf(pending_requests_)
    /\ flush_inflight' = InFlight
    /\ flush_errors' = 0
    /\ flush_timeout_seen' = FALSE
    /\ UNCHANGED <<pending_requests_, override_settings_, last_settings_,
                   last_override_settings_, current, sensor_pc, next, callback,
                   returned_early, client_vars, partial_supported, hal_vars, loop_pc, events,
                   crashed, last_apply>>

\* vsync_.waitRelative returns TIMED_OUT in the Flush caller.
FlushWaitTimeout ==
    /\ ~crashed
    /\ flush_pc = "vs_wait"
    /\ flush_pc' = "vs_timeout"
    /\ UNCHANGED <<processor_vars, sensor_vars, client_vars, flush_count, flush_ret,
                   flush_queued, flush_inflight, flush_errors, flush_timeout_seen,
                   partial_supported, hal_vars, loop_pc, events, crashed, last_apply>>

\* EmulatedSensor::Flush after the wait (lines 725-759): a non-empty latched
\* buffer list is marked failed, notified once and cleared.
FlushLatched(latch) ==
    IF latch.output_buffers > 0
    THEN [latch EXCEPT !.output_buffers = -1]
    ELSE latch

\* Mutant of FlushLatchedNotifies: the notification is sent whatever is latched.
FlushLatchedNotifies_Always(latch) == TRUE

\* Lines 735-749: the notification is sent for a non-empty buffer list with a
\* result.
FlushLatchedNotifies(latch) == latch.output_buffers > 0 /\ latch.result # 0

\* The wait in EmulatedSensor::Flush returns to its while loop: without
\* got_vsync_ it waits again, with it the rest of EmulatedSensor::Flush runs.
FlushWaitReturn ==
    /\ ~crashed
    /\ flush_pc \in {"vs_woken", "vs_timeout"}
    /\ IF WaitForVSyncLocked(got_vsync_) = "return"
       THEN /\ flush_pc' = "drain"
            /\ flush_ret' = "OK"
            /\ current' = FlushLatched(current)
            /\ IF FlushLatchedNotifies(current)
               THEN /\ events' = Append(events, Event("error_result", current.output_buffers))
                    /\ flush_errors' = flush_errors + 1
               ELSE UNCHANGED <<events, flush_errors>>
            /\ UNCHANGED flush_timeout_seen
       ELSE /\ flush_pc' = "vs_wait"
            /\ flush_timeout_seen' = (flush_timeout_seen \/ flush_pc = "vs_timeout")
            /\ UNCHANGED <<flush_ret, current, events, flush_errors>>
    /\ UNCHANGED <<processor_vars, got_vsync_, sensor_pc, next, callback,
                   returned_early, client_vars, flush_count, flush_queued,
                   flush_inflight, partial_supported, hal_vars, loop_pc, crashed, last_apply>>

\* NotifyFailedRequest: one kErrorRequest notification for the request.
NotifyFailedRequest(log, request) == Append(log, Event("error_request", request.frame_number))

\* EmulatedRequestProcessor::Flush, lines 235-241: the pending requests are
\* failed and popped one by one, then process_mutex_ is released.
FlushDrain ==
    /\ ~crashed
    /\ flush_pc = "drain"
    /\ IF pending_requests_ # <<>>
       THEN /\ events' = NotifyFailedRequest(events, Head(pending_requests_))
            /\ pending_requests_' = Tail(pending_requests_)
            /\ flush_errors' = flush_errors + 1
            /\ UNCHANGED <<flush_pc, process_mutex_, flush_timeout_seen>>
       ELSE /\ flush_pc' = "idle"
            /\ process_mutex_' = "free"
            /\ flush_timeout_seen' = FALSE
            /\ UNCHANGED <<events, pending_requests_, flush_errors>>
    /\ UNCHANGED <<override_settings_, last_settings_, last_override_settings_,
                   sensor_vars, client_vars, flush_count, flush_ret, flush_queued,
                   flush_inflight, partial_supported, hal_vars, loop_pc, crashed, last_apply>>

\* ------------------------------------------------------ RealtimeProcessBlock
BlockRet(op, status) == [op |-> op, status |-> status]

\* The histories of the last step: a call on the block leaves no delivery,
\* a callback of the backend leaves no call.
NoCall == [size |-> 0, add_res |-> "OK", processor |-> FALSE]
NoDelivery == [kind |-> "none", items |-> <<>>, processor |-> FALSE]

NoCallback ==
    /\ delivered' = NoDelivery
    /\ rp_received' = <<>>

NoBlockCall ==
    /\ block_ret' = BlockRet("none", "none")
    /\ block_call' = NoCall

\* SetResultProcessor, lines 80-96.
SetResultProcessor(result_processor) ==
    /\ IF ~result_processor
       THEN /\ block_ret' = BlockRet("SetResultProcessor", "BAD_VALUE")
            /\ UNCHANGED result_processor_
       ELSE IF result_processor_
            THEN /\ block_ret' = BlockRet("SetResultProcessor", "ALREADY_EXISTS")
                 /\ UNCHANGED result_processor_
            ELSE /\ result_processor_' = TRUE
                 /\ block_ret' = BlockRet("SetResultProcessor", "OK")
    /\ NoCallback
    /\ block_call' = NoCall
    /\ UNCHANGED <<hwl_vars, zsl_vars, ownership_vars, pacing_vars, lock_vars, session_vars, is_configured_, pipeline_id_, configure_calls, submitted,
                   rp_pending, completed, block_frame>>

\* Mutant of ConfigureStreams: the is_configured_ test is missing.
ConfigureStreams_Reconfigures(res, new_id, max_configure) ==
    /\ configure_calls < max_configure
    /\ configure_calls' = configure_calls + 1
    /\ pipeline_id_' = new_id
    /\ is_configured_' = (res = "OK")
    /\ block_ret' = BlockRet("ConfigureStreams", res)
    /\ NoCallback
    /\ block_call' = NoCall
    /\ UNCHANGED <<hwl_vars, zsl_vars, ownership_vars, pacing_vars, lock_vars, session_vars, result_processor_, submitted, rp_pending,
                   completed, block_frame>>

\* ConfigureStreams, lines 98-119. The backend's ConfigurePipeline returns res
\* and may store new_id through the pointer to pipeline_id_.
ConfigureStreams(res, new_id, max_configure) ==
    /\ IF is_configured_
       THEN /\ block_ret' = BlockRet("ConfigureStreams", "ALREADY_EXISTS")
            /\ UNCHANGED <<is_configured_, pipeline_id_, configure_calls>>
       ELSE /\ configure_calls < max_configure
            /\ configure_calls' = configure_calls + 1
            /\ pipeline_id_' = new_id
            /\ is_configured_' = (res = "OK")
            /\ block_ret' = BlockRet("ConfigureStreams", res)
    /\ NoCallback
    /\ block_call' = NoCall
    /\ UNCHANGED <<hwl_vars, zsl_vars, ownership_vars, pacing_vars, lock_vars, session_vars, result_processor_, submitted, rp_pending,
                   completed, block_frame>>

\* The submitted frames whose result has not reached the result processor.
Outstanding == {submitted[i] : i \in 1..Len(submitted)} \ completed

\* Mutant of ProcessRequests: the is_configured_ test is missing.
ProcessRequests_NoConfiguredTest(size, add_res, create_res, submit_res, max_frame) ==
    /\ block_frame <= max_frame
    /\ block_call' = [size |-> size, add_res |-> add_res, processor |-> result_processor_]
    /\ IF size # 1
       THEN /\ block_ret' = BlockRet("ProcessRequests", "BAD_VALUE")
            /\ UNCHANGED <<rp_pending, submitted, block_frame>>
       ELSE /\ block_frame' = block_frame + 1
            /\ IF ~result_processor_
               THEN /\ block_ret' = BlockRet("ProcessRequests", "NO_INIT")
                    /\ UNCHANGED <<rp_pending, submitted>>
               ELSE IF add_res # "OK"
                    THEN /\ block_ret' = BlockRet("ProcessRequests", add_res)
                         /\ UNCHANGED <<rp_pending, submitted>>
                    ELSE /\ rp_pending' = Append(rp_pending, block_frame)
                         /\ IF create_res # "OK"
                            THEN /\ block_ret' = BlockRet("ProcessRequests", create_res)
                                 /\ UNCHANGED submitted
                            ELSE /\ submitted' = Append(submitted, block_frame)
                                 /\ block_ret' = BlockRet("ProcessRequests", submit_res)
    /\ NoCallback
    /\ UNCHANGED <<hwl_vars, zsl_vars, ownership_vars, pacing_vars, lock_vars, session_vars, is_configured_, pipeline_id_, result_processor_,
                   configure_calls, completed>>

\* ProcessRequests, lines 138-181, called with `size` requests; add_res,
\* create_res and submit_res are the results of AddPendingRequests,
\* CreateHwlPipelineRequest and SubmitRequests.
ProcessRequests(size, add_res, create_res, submit_res, max_frame) ==
    /\ block_frame <= max_frame
    /\ block_call' = [size |-> size, add_res |-> add_res, processor |-> result_processor_]
    /\ IF size # 1
       THEN /\ block_ret' = BlockRet("ProcessRequests", "BAD_VALUE")
            /\ UNCHANGED <<rp_pending, submitted, block_frame>>
       ELSE /\ block_frame' = block_frame + 1
            /\ IF ~result_processor_
               THEN /\ block_ret' = BlockRet("ProcessRequests", "NO_INIT")
                    /\ UNCHANGED <<rp_pending, submitted>>
               ELSE IF add_res # "OK"
                    THEN /\ block_ret' = BlockRet("ProcessRequests", add_res)
                         /\ UNCHANGED <<rp_pending, submitted>>
                    ELSE /\ rp_pending' = Append(rp_pending, block_frame)
                         /\ IF ~is_configured_
                            THEN /\ block_ret' = BlockRet("ProcessRequests", "NO_INIT")
                                 /\ UNCHANGED submitted
                            ELSE IF create_res # "OK"
                                 THEN /\ block_ret' = BlockRet("ProcessRequests", create_res)
                                      /\ UNCHANGED submitted
                                 ELSE /\ submitted' = Append(submitted, block_frame)
                                      /\ block_ret' = BlockRet("ProcessRequests", submit_res)
    /\ NoCallback
    /\ UNCHANGED <<hwl_vars, zsl_vars, ownership_vars, pacing_vars, lock_vars, session_vars, is_configured_, pipeline_id_, result_processor_,
                   configure_calls, completed>>

\* What the backend hands to a callback: item.valid is FALSE for a result
\* that hal_utils::ConvertToCaptureResult turns into nullptr.
Delivery(kind, items) == [kind |-> kind, items |-> items, processor |-> result_processor_]
Forwarded(kind, frames) == [kind |-> kind, frames |-> frames]

\* The backend holds the callbacks from its first ConfigurePipeline call on.
BackendHasCallbacks == configure_calls > 0

\* The result processor marks the submitted frames of the results it gets.
Complete(frames) ==
    completed \cup {f \in frames : \E i \in 1..Len(submitted) : submitted[i] = f}

\* NotifyHwlPipelineResult, lines 202-219.
NotifyHwlPipelineResult(item) ==
    /\ BackendHasCallbacks
    /\ delivered' = Delivery("result", <<item>>)
    /\ IF ~result_processor_ \/ ~item.valid
       THEN /\ rp_received' = <<>>
            /\ UNCHANGED completed
       ELSE /\ rp_received' = <<Forwarded("result", <<item.frame>>)>>
            /\ completed' = Complete({item.frame})
    /\ UNCHANGED <<hwl_vars, zsl_vars, ownership_vars, pacing_vars, lock_vars, session_vars, is_configured_, pipeline_id_, result_processor_,
                   configure_calls, submitted, rp_pending, block_frame>>
    /\ NoBlockCall

\* Mutant of ConvertBatch: a result that does not convert is skipped and the
\* conversion goes on.
RECURSIVE ConvertBatch_SkipsInvalid(_, _)
ConvertBatch_SkipsInvalid(hwl_results, block_results) ==
    IF hwl_results = <<>> THEN [ok |-> TRUE, results |-> block_results]
    ELSE IF ~Head(hwl_results).valid
         THEN ConvertBatch_SkipsInvalid(Tail(hwl_results), block_results)
    ELSE ConvertBatch_SkipsInvalid(Tail(hwl_results),
                                   Append(block_results, Head(hwl_results).frame))

\* The conversion loop of NotifyHwlPipelineBatchResult, lines 232-242:
\* block_results so far, or "failed" at the first result that does not convert.
RECURSIVE ConvertBatch(_, _)
ConvertBatch(hwl_results, block_results) ==
    IF hwl_results = <<>> THEN [ok |-> TRUE, results |-> block_results]
    ELSE IF ~Head(hwl_results).valid THEN [ok |-> FALSE, results |-> block_results]
    ELSE ConvertBatch(Tail(hwl_results), Append(block_results, Head(hwl_results).frame))

\* NotifyHwlPipelineBatchResult, lines 221-244.
NotifyHwlPipelineBatchResult(hwl_results) ==
    /\ BackendHasCallbacks
    /\ delivered' = Delivery("batch", hwl_results)
    /\ LET converted == ConvertBatch(hwl_results, <<>>)
       IN IF ~result_processor_ \/ ~converted.ok
          THEN /\ rp_received' = <<>>
               /\ UNCHANGED completed
          ELSE /\ rp_received' = <<Forwarded("batch", converted.results)>>
               /\ completed' = Complete({converted.results[i] : i \in 1..Len(converted.results)})
    /\ UNCHANGED <<hwl_vars, zsl_vars, ownership_vars, pacing_vars, lock_vars, session_vars, is_configured_, pipeline_id_, result_processor_,
                   configure_calls, submitted, rp_pending, block_frame>>
    /\ NoBlockCall

\* NotifyHwlPipelineMessage, lines 246-257.
NotifyHwlPipelineMessage(frame) ==
    /\ BackendHasCallbacks
    /\ delivered' = Delivery("message", <<[frame |-> frame, valid |-> TRUE]>>)
    /\ IF ~result_processor_
       THEN rp_received' = <<>>
       ELSE rp_received' = <<Forwarded("message", <<frame>>)>>
    /\ UNCHANGED <<hwl_vars, zsl_vars, ownership_vars, pacing_vars, lock_vars, session_vars, is_configured_, pipeline_id_, result_processor_,
                   configure_calls, submitted, rp_pending, completed, block_frame>>
    /\ NoBlockCall

\* A batch of results of the frames 1, 2, ... with the given validity flags.
Batch(flags) == [i \in DOMAIN flags |-> [frame |-> i, valid |-> flags[i]]]
Flags(max_batch) == UNION {[1..n -> BOOLEAN] : n \in 0..max_batch}
Statuses == {"OK", "UNKNOWN_ERROR"}

\* ------------------------------------- CameraDeviceSession: buffer handle map
\* BufferCache{stream_id, buffer_id} -> buffer_handle_t
BufferCache(stream_id, buffer_id) == [stream_id |-> stream_id, buffer_id |-> buffer_id]
Entry(buffer_cache, handle) ==
    [stream_id |-> buffer_cache.stream_id, buffer_id |-> buffer_cache.buffer_id,
     handle |-> handle]
HandlesOf(map, buffer_cache) ==
    {e.handle : e \in {x \in map : /\ x.stream_id = buffer_cache.stream_id
                                   /\ x.buffer_id = buffer_cache.buffer_id}}

\* IsBufferImportedLocked
IsBufferImportedLocked(map, buffer_cache) == HandlesOf(map, buffer_cache) # {}

\* Mutant of AddImportedBufferHandlesLocked: a different handle replaces the
\* mapped one.
AddImportedBufferHandlesLocked_Overwrites(map, buffer_cache, buffer_handle) ==
    [map |-> {e \in map : ~(/\ e.stream_id = buffer_cache.stream_id
                            /\ e.buffer_id = buffer_cache.buffer_id)}
             \cup {Entry(buffer_cache, buffer_handle)},
     status |-> "OK"]

\* AddImportedBufferHandlesLocked: a new key is added; a mapped key with
\* another handle is BAD_VALUE and the map is left alone.
AddImportedBufferHandlesLocked(map, buffer_cache, buffer_handle) ==
    IF ~IsBufferImportedLocked(map, buffer_cache)
    THEN [map |-> map \cup {Entry(buffer_cache, buffer_handle)}, status |-> "OK"]
    ELSE IF HandlesOf(map, buffer_cache) # {buffer_handle}
         THEN [map |-> map, status |-> "BAD_VALUE"]
         ELSE [map |-> map, status |-> "OK"]

\* Mutant of ImportBufferHandleLocked: a handle already imported for the key
\* is a re-import error.
ImportBufferHandleLocked_HitFails(stream_id, buffer_id, buffer_handle) ==
    LET buffer_cache == BufferCache(stream_id, buffer_id)
        hit == IsBufferImportedLocked(imported_buffer_handle_map_, buffer_cache)
        added == AddImportedBufferHandlesLocked(imported_buffer_handle_map_,
                                                buffer_cache, buffer_handle)
    IN /\ stream_id \in configured_streams_map_
       /\ UNCHANGED configured_streams_map_
       /\ imported_buffer_handle_map_' = added.map
       /\ cache_op' = [op |-> "import", stream_id |-> stream_id, buffer_id |-> buffer_id,
                       handle |-> buffer_handle,
                       status |-> IF hit THEN "ALREADY_EXISTS" ELSE added.status,
                       hit |-> hit, freed |-> {}]
       /\ UNCHANGED <<hwl_vars, zsl_vars, ownership_vars, pacing_vars, lock_vars, block_vars, tracker_vars>>

\* ImportBufferHandleLocked: Import(cacheKey, handle).
ImportBufferHandleLocked(stream_id, buffer_id, buffer_handle) ==
    LET buffer_cache == BufferCache(stream_id, buffer_id)
        hit == IsBufferImportedLocked(imported_buffer_handle_map_, buffer_cache)
        added == AddImportedBufferHandlesLocked(imported_buffer_handle_map_,
                                                buffer_cache, buffer_handle)
    IN /\ stream_id \in configured_streams_map_
       /\ UNCHANGED configured_streams_map_
       /\ imported_buffer_handle_map_' = added.map
       /\ cache_op' = [op |-> "import", stream_id |-> stream_id, buffer_id |-> buffer_id,
                       handle |-> buffer_handle, status |-> added.status,
                       hit |-> hit, freed |-> {}]
       /\ UNCHANGED <<hwl_vars, zsl_vars, ownership_vars, pacing_vars, lock_vars, block_vars, tracker_vars>>

\* Mutant of FreeBufferHandles: the buffer id is compared with stream_id.
FreeBufferHandles_ByBufferId(map, stream_id) == {e \in map : e.buffer_id # stream_id}

\* The map after FreeBufferHandlesLocked(stream_id).
FreeBufferHandles(map, stream_id) == {e \in map : e.stream_id # stream_id}

\* FreeBufferHandlesLocked(stream_id) for every stream of `stale`.
RECURSIVE FreeStaleStreams(_, _)
FreeStaleStreams(map, stale) ==
    IF stale = {} THEN map
    ELSE LET stream_id == CHOOSE x \in stale : TRUE
         IN FreeStaleStreams(FreeBufferHandles(map, stream_id), stale \ {stream_id})

\* CleanupStaleStreamsLocked(new_streams): the buffer handles of the
\* configured streams that are not in the new configuration are freed.
CleanupStaleStreamsLocked(new_streams) ==
    LET stale == configured_streams_map_ \ new_streams
    IN /\ imported_buffer_handle_map_' = FreeStaleStreams(imported_buffer_handle_map_, stale)
       /\ configured_streams_map_' = new_streams
       /\ cache_op' = [op |-> "cleanup", stream_id |-> 0, buffer_id |-> 0, handle |-> 0,
                       status |-> "OK", hit |-> FALSE,
                       freed |-> {e \in imported_buffer_handle_map_ : e.stream_id \in stale}]
       /\ UNCHANGED <<hwl_vars, zsl_vars, ownership_vars, pacing_vars, lock_vars, block_vars, tracker_vars>>

\* RemoveBufferCache, for one buffer cache: its entry is removed.
RemoveBufferCache(stream_id, buffer_id) ==
    LET removed == {e \in imported_buffer_handle_map_ :
                       e.stream_id = stream_id /\ e.buffer_id = buffer_id}
    IN /\ imported_buffer_handle_map_' = imported_buffer_handle_map_ \ removed
       /\ cache_op' = [op |-> "remove", stream_id |-> stream_id, buffer_id |-> buffer_id,
                       handle |-> 0, status |-> "OK", hit |-> removed # {},
                       freed |-> removed]
       /\ UNCHANGED <<hwl_vars, zsl_vars, ownership_vars, pacing_vars, lock_vars, block_vars, tracker_vars, configured_streams_map_>>

\* ---------------------------------------------- pending request records
\* The records of pending_request_streams_ for one frame number.
RecordsOf(map, frame_number) == {r \in map : r.frame_number = frame_number}

\* The stream ids of frame_number that are still outstanding in the map.
PendingStreams(map, frame_number) == UNION {r.streams : r \in RecordsOf(map, frame_number)}

ResolveCount(pair) == IF pair \in DOMAIN resolve_count THEN resolve_count[pair] ELSE 0

\* A request with the given HAL buffer managed streams is admitted: a record
\* is created when the request has such streams.
TryAdmit(streams, max_frame) ==
    /\ session_frame <= max_frame
    /\ pending_request_streams_' =
           IF streams = {} THEN pending_request_streams_
           ELSE pending_request_streams_ \cup
                    {[frame_number |-> session_frame, streams |-> streams]}
    /\ expected_streams' = expected_streams \cup
                               {[frame_number |-> session_frame, streams |-> streams]}
    /\ session_frame' = session_frame + 1
    /\ tracker_op' = [NoTrackerOp EXCEPT !.op = "admit", !.frame_number = session_frame,
                                         !.status = "OK"]
    /\ UNCHANGED <<hwl_vars, zsl_vars, ownership_vars, pacing_vars, lock_vars, block_vars, cache_vars, resolve_count>>

\* Mutant of ResolveStream: a pair that is not outstanding is ignored.
ResolveStream_Silent(map, frame_number, stream_id) ==
    LET outstanding == stream_id \in PendingStreams(map, frame_number)
        left == PendingStreams(map, frame_number) \ {stream_id}
        erased == map \ RecordsOf(map, frame_number)
        updated == IF left = {} THEN erased
                   ELSE erased \cup {[frame_number |-> frame_number, streams |-> left]}
    IN IF ~outstanding
       THEN [map |-> map, status |-> "OK", outstanding |-> FALSE,
             completion |-> FALSE, flush |-> FALSE]
       ELSE [map |-> updated, status |-> "OK", outstanding |-> TRUE,
             completion |-> left = {}, flush |-> updated = {}]

\* Mutant of ResolveStream: the record stays in the map when its set empties.
ResolveStream_KeepsEmpty(map, frame_number, stream_id) ==
    LET outstanding == stream_id \in PendingStreams(map, frame_number)
        left == PendingStreams(map, frame_number) \ {stream_id}
        erased == map \ RecordsOf(map, frame_number)
        updated == erased \cup {[frame_number |-> frame_number, streams |-> left]}
    IN IF ~outstanding
       THEN [map |-> map, status |-> "UNKNOWN_ERROR", outstanding |-> FALSE,
             completion |-> FALSE, flush |-> FALSE]
       ELSE [map |-> updated, status |-> "OK", outstanding |-> TRUE,
             completion |-> left = {}, flush |-> FALSE]

\* Resolve(frameNumber, streamId): one expected entry is removed; a pair that
\* is not outstanding is reported and changes nothing; the record is erased
\* when its set empties (completion), and the buffer suppliers are told to
\* flush when no record is left.
ResolveStream(map, frame_number, stream_id) ==
    LET outstanding == stream_id \in PendingStreams(map, frame_number)
        left == PendingStreams(map, frame_number) \ {stream_id}
        erased == map \ RecordsOf(map, frame_number)
        updated == IF left = {} THEN erased
                   ELSE erased \cup {[frame_number |-> frame_number, streams |-> left]}
    IN IF ~outstanding
       THEN [map |-> map, status |-> "UNKNOWN_ERROR", outstanding |-> FALSE,
             completion |-> FALSE, flush |-> FALSE]
       ELSE [map |-> updated, status |-> "OK", outstanding |-> TRUE,
             completion |-> left = {}, flush |-> updated = {}]

\* UpdatePendingRequest, for a result of frame_number with one buffer of
\* stream_id (status OK or ERROR alike).
UpdatePendingRequest(frame_number, stream_id) ==
    LET r == ResolveStream(pending_request_streams_, frame_number, stream_id)
        pair == <<frame_number, stream_id>>
    IN /\ pending_request_streams_' = r.map
       /\ resolve_count' =
              IF r.status = "OK"
              THEN [q \in DOMAIN resolve_count \cup {pair} |->
                        IF q = pair THEN ResolveCount(pair) + 1 ELSE resolve_count[q]]
              ELSE resolve_count
       /\ tracker_op' = [op |-> "resolve", frame_number |-> frame_number,
                         stream_id |-> stream_id, status |-> r.status,
                         outstanding |-> r.outstanding, completion |-> r.completion,
                         flush |-> r.flush]
       /\ UNCHANGED <<hwl_vars, zsl_vars, ownership_vars, pacing_vars, lock_vars, block_vars, cache_vars, expected_streams, session_frame>>

\* A reconfiguration resets the records.
ResetPendingRequests ==
    /\ pending_request_streams_' = {}
    /\ expected_streams' = {}
    /\ resolve_count' = [pair \in {} |-> 0]
    /\ tracker_op' = [NoTrackerOp EXCEPT !.op = "reset", !.status = "OK"]
    /\ UNCHANGED <<hwl_vars, zsl_vars, ownership_vars, pacing_vars, lock_vars, block_vars, cache_vars, session_frame>>

\* ------------------------------------------------------------ specifications
Next ==
    \/ \E kind \in SpecKinds : ProcessPipelineRequests(kind, 1, TRUE, MaxFrame)
    \/ AdmissionTimeout
    \/ AdmissionSpuriousWake
    \/ AdmissionResume
    \/ RequestProcessorLoop(0)
    \/ LoopWaitForVSync
    \/ LoopWaitTimeout
    \/ LoopWaitReturn
    \/ SensorSwap
    \/ SensorCapture
    \/ \E early \in BOOLEAN : SensorReturnEarly(early)
    \/ SensorReturnFinal
    \/ Flush(MaxFlush)
    \/ FlushWaitTimeout
    \/ FlushWaitReturn
    \/ FlushDrain

Spec == Init /\ [][Next]_vars


\* The synchronisation specification: the threads of Spec (submitters, the
\* Flush caller, the request-processor loop and the sensor loop) over fewer
\* frames. With so few frames pending_requests_ never holds more than
\* kPipelineDepth requests, so no submitter waits for a slot.
MaxSyncFrame == 3

NextSync ==
    \/ \E kind \in SpecKinds : ProcessPipelineRequests(kind, 1, TRUE, MaxSyncFrame)
    \/ RequestProcessorLoop(0)
    \/ LoopWaitForVSync
    \/ LoopWaitTimeout
    \/ LoopWaitReturn
    \/ SensorSwap
    \/ SensorCapture
    \/ \E early \in BOOLEAN : SensorReturnEarly(early)
    \/ SensorReturnFinal
    \/ Flush(MaxFlush)
    \/ FlushWaitTimeout
    \/ FlushWaitReturn
    \/ FlushDrain

SpecSync == Init /\ [][NextSync]_vars


\* The admission specification: the submitters with their admission wait,
\* the request-processor loop and the sensor loop, without a Flush caller.
NextAdmission ==
    \/ \E kind \in SpecKinds : ProcessPipelineRequests(kind, 1, TRUE, MaxFrame)
    \/ AdmissionTimeout
    \/ AdmissionSpuriousWake
    \/ AdmissionResume
    \/ RequestProcessorLoop(0)
    \/ LoopWaitForVSync
    \/ LoopWaitTimeout
    \/ LoopWaitReturn
    \/ SensorSwap
    \/ SensorCapture
    \/ \E early \in BOOLEAN : SensorReturnEarly(early)
    \/ SensorReturnFinal

SpecAdmission == Init /\ [][NextAdmission]_vars


\* The deferred-settings specification: requests of every kind, the
\* request-processor loop and the sensor loop.
NextRamp ==
    \/ \E kind \in RampKinds : ProcessPipelineRequests(kind, 1, TRUE, MaxRampFrame)
    \/ RequestProcessorLoop(0)
    \/ LoopWaitForVSync
    \/ LoopWaitTimeout
    \/ LoopWaitReturn
    \/ SensorSwap
    \/ SensorCapture
    \/ \E early \in BOOLEAN : SensorReturnEarly(early)
    \/ SensorReturnFinal

SpecRamp == Init /\ [][NextRamp]_vars

\* The override specification: the deferred-settings path of SpecRamp with a
\* sensor loop that returns its results after its sleep (the return before
\* the sleep, under a tight deadline, does not touch override_settings_).
NextOverride ==
    \/ \E kind \in RampKinds : ProcessPipelineRequests(kind, 1, TRUE, MaxRampFrame)
    \/ RequestProcessorLoop(0)
    \/ LoopWaitForVSync
    \/ LoopWaitTimeout
    \/ LoopWaitReturn
    \/ SensorSwap
    \/ SensorCapture
    \/ SensorReturnEarly(FALSE)
    \/ SensorReturnFinal

SpecOverride == Init /\ [][NextOverride]_vars


\* The buffer specification: requests with any number of output buffers,
\* obtainable or not, and acquire fences that may fail.
NextBuffers ==
    \/ \E output_buffers \in 0..MaxOutputBuffers : \E obtainable \in BOOLEAN :
           ProcessPipelineRequests("absent", output_buffers, obtainable, MaxBufferFrame)
    \/ \E fence_failed \in 0..MaxOutputBuffers : RequestProcessorLoop(fence_failed)
    \/ LoopWaitForVSync
    \/ LoopWaitTimeout
    \/ LoopWaitReturn
    \/ SensorSwap
    \/ SensorCapture
    \/ \E early \in BOOLEAN : SensorReturnEarly(early)
    \/ SensorReturnFinal

SpecBuffers == Init /\ [][NextBuffers]_vars


\* The failure specification: requests of one output buffer, with or
\* without settings, whose buffer may fail to be requested or acquired, under
\* the scheduling of the two loops: the request-processor thread and the
\* sensor thread each keep taking their next step.
FailKinds == {"off", "null"}
MaxFailFrame == 2

NextFail ==
    \/ \E kind \in FailKinds : \E obtainable \in BOOLEAN :
           ProcessPipelineRequests(kind, 1, obtainable, MaxFailFrame)
    \/ \E fence_failed \in 0..MaxOutputBuffers : RequestProcessorLoop(fence_failed)
    \/ LoopWaitForVSync
    \/ LoopWaitTimeout
    \/ LoopWaitReturn
    \/ SensorSwap
    \/ SensorCapture
    \/ \E early \in BOOLEAN : SensorReturnEarly(early)
    \/ SensorReturnFinal

FairLoops ==
    /\ WF_vars(\E fence_failed \in 0..MaxOutputBuffers : RequestProcessorLoop(fence_failed))
    /\ WF_vars(LoopWaitForVSync)
    /\ WF_vars(LoopWaitReturn)
    /\ WF_vars(SensorSwap)
    /\ WF_vars(SensorCapture)
    /\ WF_vars(\E early \in BOOLEAN : SensorReturnEarly(early))
    /\ WF_vars(SensorReturnFinal)

SpecFail == Init /\ [][NextFail]_vars /\ FairLoops


\* The process block: its client (the capture session) above, its backend
\* and its result processor.
NextBlock ==
    \/ \E result_processor \in BOOLEAN : SetResultProcessor(result_processor)
    \/ \E res \in Statuses : \E new_id \in {pipeline_id_, configure_calls + 1} :
           (res = "OK" => new_id = configure_calls + 1)
           /\ ConfigureStreams(res, new_id, MaxConfigure)
    \/ \E size \in 0..2 : \E add_res, create_res, submit_res \in Statuses :
           ProcessRequests(size, add_res, create_res, submit_res, MaxBlockFrame)
    \/ \E frame \in 1..MaxBlockFrame : \E valid \in BOOLEAN :
           NotifyHwlPipelineResult([frame |-> frame, valid |-> valid])
    \/ \E flags \in Flags(MaxBlockFrame) : NotifyHwlPipelineBatchResult(Batch(flags))
    \/ \E frame \in 0..MaxBlockFrame : NotifyHwlPipelineMessage(frame)

\* The emulated HWL below does not run under SpecBlock.
InitBlock == Init /\ partial_supported

SpecBlock == InitBlock /\ [][NextBlock]_vars


\* The buffer handles the framework may send for a buffer id: the one the
\* buffer was allocated with and another one.
Handles(buffer_id) == {2 * buffer_id - 1, 2 * buffer_id}

\* The imported buffer handle map of the session and its callers.
NextCache ==
    \/ \E stream_id \in 1..MaxStream : \E buffer_id \in 1..MaxBuffer :
           \E buffer_handle \in Handles(buffer_id) :
               ImportBufferHandleLocked(stream_id, buffer_id, buffer_handle)
    \/ \E new_streams \in SUBSET (1..MaxStream) : CleanupStaleStreamsLocked(new_streams)
    \/ \E stream_id \in 1..MaxStream : \E buffer_id \in 1..MaxBuffer :
           RemoveBufferCache(stream_id, buffer_id)

SpecCache == InitBlock /\ [][NextCache]_vars

\* The pending request records of the session and their callers.
NextTracker ==
    \/ \E streams \in SUBSET (1..MaxStream) : TryAdmit(streams, MaxSessionFrame)
    \/ \E frame_number \in 1..MaxSessionFrame : \E stream_id \in 1..MaxStream :
           UpdatePendingRequest(frame_number, stream_id)
    \/ ResetPendingRequests

SpecTracker == InitBlock /\ [][NextTracker]_vars


\* ------------------------------------------- RealtimeZslRequestProcessor
\* The internal stream manager hands out the ids above the framework's.
NewInternalStreamId(registered) == MaxZslStream + Cardinality(registered) + 1

\* ConfigureStreams: every stream of stream_config is configured and one
\* internal stream is registered; the process block's configuration holds
\* both.
ZslConfigureStreams(stream_config, max_configure) ==
    /\ zsl_configures < max_configure
    /\ LET stream_id == NewInternalStreamId(internal_streams)
       IN /\ internal_streams' = internal_streams \cup {stream_id}
          /\ stream_id_' = stream_id
          /\ zsl_stream_config' = stream_config \cup {stream_id}
    /\ zsl_registrations' = zsl_registrations + 1
    /\ zsl_configures' = zsl_configures + 1
    /\ zsl_inflight' = {}
    /\ zsl_result' = NoZslResult
    /\ UNCHANGED <<hwl_vars, block_vars, session_vars, ownership_vars, pacing_vars, lock_vars, process_block_, zsl_frame>>

\* SetProcessBlock: the realtime process block requests are sent to.
SetProcessBlock ==
    /\ ~process_block_
    /\ process_block_' = TRUE
    /\ UNCHANGED <<hwl_vars, block_vars, session_vars, ownership_vars, pacing_vars, lock_vars, stream_id_, internal_streams,
                   zsl_stream_config, zsl_configures, zsl_registrations, zsl_frame,
                   zsl_inflight, zsl_result>>

\* ProcessRequest: one output buffer of the internal stream is added to the
\* request, which is forwarded to the process block.
AddInternalOutput(streams, stream_id) == streams \cup {stream_id}

ProcessRequest(streams, max_frame) ==
    /\ process_block_
    /\ stream_id_ # -1
    /\ zsl_frame <= max_frame
    /\ streams # {}
    /\ streams \subseteq zsl_stream_config \ internal_streams
    /\ zsl_inflight' = zsl_inflight \cup
           {[frame_number |-> zsl_frame,
             streams |-> AddInternalOutput(streams, stream_id_)]}
    /\ zsl_frame' = zsl_frame + 1
    /\ UNCHANGED <<hwl_vars, block_vars, session_vars, ownership_vars, pacing_vars, lock_vars, stream_id_, process_block_,
                   internal_streams, zsl_stream_config, zsl_configures,
                   zsl_registrations, zsl_result>>

\* Mutant of StripInternal: the result is forwarded as the block delivered it.
StripInternal_Forwards(streams, stream_id) == streams

\* The result path: the buffers of the internal stream are taken out of a
\* result (and go back to the internal stream manager) before it is
\* forwarded.
StripInternal(streams, stream_id) == streams \ {stream_id}

\* The process block delivers buffers of a forwarded request.
ProcessResult(frame_number, streams) ==
    /\ streams # {}
    /\ \E r \in zsl_inflight :
          /\ r.frame_number = frame_number
          /\ streams \subseteq r.streams
          /\ zsl_inflight' = (zsl_inflight \ {r}) \cup
                 (IF r.streams = streams THEN {}
                  ELSE {[r EXCEPT !.streams = r.streams \ streams]})
    /\ zsl_result' = [frame_number |-> frame_number,
                      streams |-> StripInternal(streams, stream_id_),
                      raw |-> streams]
    /\ UNCHANGED <<hwl_vars, block_vars, session_vars, ownership_vars, pacing_vars, lock_vars, stream_id_, process_block_,
                   internal_streams, zsl_stream_config, zsl_configures,
                   zsl_registrations, zsl_frame>>

\* The ZSL request processor and its callers.
ZslStreams == 1..(MaxZslStream + MaxZslConfigure)

NextZsl ==
    \/ \E stream_config \in SUBSET (1..MaxZslStream) :
           ZslConfigureStreams(stream_config, MaxZslConfigure)
    \/ SetProcessBlock
    \/ \E streams \in SUBSET (1..MaxZslStream) : ProcessRequest(streams, MaxZslFrame)
    \/ \E frame_number \in 1..MaxZslFrame : \E streams \in SUBSET ZslStreams :
           ProcessResult(frame_number, streams)

SpecZsl == InitBlock /\ [][NextZsl]_vars


\* ------------------------------------------------------- buffer ownership
\* A stream buffer of a request, by what decides its way: its handle came
\* with the request (given) or has to be requested from the HAL buffer
\* manager, the buffer request succeeds (request_ok), CreateSensorBuffer locks
\* it and imports its fence (create_ok), and its acquire fence wait succeeds
\* (fence_ok).
StreamBuffer == [given : BOOLEAN, request_ok : BOOLEAN, create_ok : BOOLEAN,
                 fence_ok : BOOLEAN]

Requests(max_buffers) ==
    UNION {[1..n -> StreamBuffer] : n \in 1..max_buffers}

\* CreateSensorBuffers, lines 161-185: the buffers request_stream_buffers
\* hands out, when the session has a HAL buffer manager.
ObtainedBuffers(buffers, hal_buffer_manager) ==
    {i \in DOMAIN buffers : ~buffers[i].given /\ hal_buffer_manager /\ buffers[i].request_ok}

\* requested_buffers before the size test.
RequestedBuffers(buffers, hal_buffer_manager) ==
    {i \in DOMAIN buffers : buffers[i].given} \cup ObtainedBuffers(buffers, hal_buffer_manager)

\* Mutant of ReturnedBuffers: nothing is given back.
ReturnedBuffers_None(buffers, hal_buffer_manager) == {}

\* Lines 187-196: when a buffer is missing, requested_buffers goes to
\* return_stream_buffers (if the session set it) and is cleared.
ReturnedBuffers(buffers, hal_buffer_manager) ==
    IF RequestedBuffers(buffers, hal_buffer_manager) # DOMAIN buffers /\ hal_buffer_manager
    THEN RequestedBuffers(buffers, hal_buffer_manager)
    ELSE {}

\* Lines 198-207: a sensor buffer for every buffer left in requested_buffers
\* that CreateSensorBuffer does not fail on.
SensorBuffers(buffers, hal_buffer_manager) ==
    IF RequestedBuffers(buffers, hal_buffer_manager) # DOMAIN buffers
    THEN {}
    ELSE {i \in DOMAIN buffers : buffers[i].create_ok}

\* AcquireBuffers, lines 425-444: the buffers whose sync_wait succeeds; the
\* others are erased from the vector.
AcquiredBuffers(buffers, queued) == {i \in queued : buffers[i].fence_ok}

\* ProcessPipelineRequests, line 110: CreateSensorBuffers for the output
\* buffers of a request.
OwnedCreate(buffers, hal_buffer_manager) ==
    /\ owned_pc = "idle"
    /\ owned_request' = buffers
    /\ obtained' = ObtainedBuffers(buffers, hal_buffer_manager)
    /\ returned' = ReturnedBuffers(buffers, hal_buffer_manager)
    /\ sensor_buffers' = SensorBuffers(buffers, hal_buffer_manager)
    /\ handed_on' = {}
    /\ owned_pc' = "created"
    /\ UNCHANGED <<hwl_vars, block_vars, session_vars, zsl_vars, pacing_vars, lock_vars>>

\* RequestProcessorLoop, lines 460-466 and 505-509: AcquireBuffers, then
\* SetCurrentRequest with what was acquired, if anything was.
OwnedAcquire ==
    /\ owned_pc = "created"
    /\ handed_on' = AcquiredBuffers(owned_request, sensor_buffers)
    /\ sensor_buffers' = {}
    /\ owned_pc' = "acquired"
    /\ UNCHANGED <<hwl_vars, block_vars, session_vars, zsl_vars, pacing_vars, lock_vars, owned_request,
                   obtained, returned>>

NextOwnership ==
    \/ \E buffers \in Requests(MaxOwnedBuffers) : \E hal_buffer_manager \in BOOLEAN :
           OwnedCreate(buffers, hal_buffer_manager)
    \/ OwnedAcquire

SpecOwnership == InitBlock /\ [][NextOwnership]_vars


\* ------------------------------------------------------------ frame pacing
hal_other_vars == <<block_vars, session_vars, zsl_vars, ownership_vars, lock_vars>>

\* Frame durations of the settings: a short one and one longer than
\* kReturnResultThreshod.
FrameDurations == {kDefaultFrameDuration + 1, 2 * kReturnResultThreshod}

\* Synthesis times below the frame duration: a short and a long one.
SynthesisTimes(duration) == {time_accuracy + 1, duration - (time_accuracy + 1)}

\* Lines 789-815: the swap, and frame_end_real_time = start_real_time +
\* frame_duration with the frame duration of the latched settings, which is the
\* same for every frame of the run.
PacedSwap(duration, max_frame) ==
    /\ paced_pc = "swap"
    /\ paced_frame <= max_frame
    /\ frame_duration \in {0, duration}
    /\ frame_duration' = duration
    /\ frame_end_real_time' = now + duration
    /\ paced_returned' = FALSE
    /\ paced_pc' = "capture"
    /\ UNCHANGED <<hwl_vars, hal_other_vars, now, paced_frame, deliveries>>

\* Line 1264: the results are returned at once when less than
\* kReturnResultThreshod is left of the frame.
ReturnsEarly(work_done_real_time, frame_end) ==
    work_done_real_time + kReturnResultThreshod > frame_end

\* Stage 2 and lines 1251-1267: the capture takes synthesis_time, then
\* ReturnResults runs if the deadline is tight.
PacedCapture(synthesis_time) ==
    /\ paced_pc = "capture"
    /\ synthesis_time \in SynthesisTimes(frame_duration)
    /\ now' = now + synthesis_time
    /\ IF ReturnsEarly(now', frame_end_real_time)
       THEN /\ deliveries' = Append(deliveries, now')
            /\ paced_returned' = TRUE
       ELSE UNCHANGED <<deliveries, paced_returned>>
    /\ paced_pc' = "blank"
    /\ UNCHANGED <<hwl_vars, hal_other_vars, frame_duration, frame_end_real_time,
                   paced_frame>>

\* Lines 1269-1280: nanosleep until frame_end_real_time unless less than
\* time_accuracy is left; the sleep returns up to overshoot late.
SleepUntil(work_done_real_time, frame_end, overshoot) ==
    IF work_done_real_time < frame_end - time_accuracy
    THEN frame_end + overshoot
    ELSE work_done_real_time

\* The vertical blanking interval and the final ReturnResults (lines
\* 1269-1283), which delivers what the early call has not.
PacedBlank(overshoot) ==
    /\ paced_pc = "blank"
    /\ now' = SleepUntil(now, frame_end_real_time, overshoot)
    /\ deliveries' = IF paced_returned THEN deliveries ELSE Append(deliveries, now')
    /\ paced_frame' = paced_frame + 1
    /\ paced_pc' = "swap"
    /\ UNCHANGED <<hwl_vars, hal_other_vars, frame_duration, frame_end_real_time,
                   paced_returned>>

NextPacing ==
    \/ \E duration \in FrameDurations : PacedSwap(duration, MaxPacedFrame)
    \/ \E synthesis_time \in UNION {SynthesisTimes(d) : d \in FrameDurations} :
           PacedCapture(synthesis_time)
    \/ \E overshoot \in 0..MaxOvershoot : PacedBlank(overshoot)

SpecPacing == InitBlock /\ [][NextPacing]_vars


\* ------------------------------------------------------------------- locks
\* A step of a thread: the locks it acquires and releases, whether it ends
\* blocked in vsync_.waitRelative, and what it does with got_vsync_ ("clear",
\* "set", "need" for a wait that returns only with it set, "none").
LockStep(from, to, acquire, release, wait, vsync) ==
    [from |-> from, to |-> to, acquire |-> acquire, release |-> release,
     wait |-> wait, vsync |-> vsync]

\* RealtimeProcessBlock::ProcessRequests (lines 148-181) into
\* EmulatedRequestProcessor::ProcessPipelineRequests (lines 83-100):
\* result_processor_lock_ around AddPendingRequests, then
\* configure_shared_mutex_ (shared) for the rest of the call, process_mutex_
\* inside it, released while the thread waits on request_condition_.
ProcessRequestsSteps ==
    {LockStep("idle", "add_pending", {"result_processor_lock_"}, {}, FALSE, "none"),
     LockStep("add_pending", "added", {}, {"result_processor_lock_"}, FALSE, "none"),
     LockStep("add_pending", "idle", {}, {"result_processor_lock_"}, FALSE, "none"),
     LockStep("added", "configured", {"configure_shared_mutex_"}, {}, FALSE, "none"),
     LockStep("configured", "idle", {}, {"configure_shared_mutex_"}, FALSE, "none"),
     LockStep("configured", "admit", {"process_mutex_"}, {}, FALSE, "none"),
     LockStep("admit", "cv_wait", {}, {"process_mutex_"}, FALSE, "none"),
     LockStep("cv_wait", "admit", {"process_mutex_"}, {}, FALSE, "none"),
     LockStep("admit", "idle", {}, {"process_mutex_", "configure_shared_mutex_"},
              FALSE, "none")}

\* RealtimeProcessBlock::Flush (lines 183-191) into
\* EmulatedRequestProcessor::Flush (lines 229-242) and EmulatedSensor::Flush
\* (lines 721-760): configure_shared_mutex_ (shared), process_mutex_,
\* control_mutex_ across the wait and the notification of the latched
\* request, then one notification (NotifyHwlPipelineMessage, line 249) for each
\* pending request.
FlushSteps ==
    {LockStep("idle", "configured", {"configure_shared_mutex_"}, {}, FALSE, "none"),
     LockStep("configured", "idle", {}, {"configure_shared_mutex_"}, FALSE, "none"),
     LockStep("configured", "flush", {"process_mutex_"}, {}, FALSE, "none"),
     LockStep("flush", "vs_wait", {"control_mutex_"}, {}, TRUE, "clear"),
     LockStep("vs_wait", "woken", {"control_mutex_"}, {}, FALSE, "need"),
     LockStep("woken", "notify_latched", {"result_processor_lock_"}, {}, FALSE, "none"),
     LockStep("notify_latched", "notified", {}, {"result_processor_lock_"}, FALSE, "none"),
     LockStep("woken", "drain", {}, {"control_mutex_"}, FALSE, "none"),
     LockStep("notified", "drain", {}, {"control_mutex_"}, FALSE, "none"),
     LockStep("drain", "notify", {"result_processor_lock_"}, {}, FALSE, "none"),
     LockStep("notify", "drain", {}, {"result_processor_lock_"}, FALSE, "none"),
     LockStep("drain", "idle", {}, {"process_mutex_", "configure_shared_mutex_"},
              FALSE, "none")}

\* RealtimeProcessBlock::ConfigureStreams (lines 98-119):
\* configure_shared_mutex_, exclusive. The thread takes the lock at once, or
\* announces itself and waits for the shared holders to leave, as a
\* std::shared_mutex that prefers writers makes it do.
ConfigureStreamsSteps ==
    {LockStep("idle", "configuring", {"configure_shared_mutex_"}, {}, FALSE, "none"),
     LockStep("idle", "entering", {}, {}, FALSE, "none"),
     LockStep("entering", "configuring", {"configure_shared_mutex_"}, {}, FALSE, "none"),
     LockStep("configuring", "idle", {}, {"configure_shared_mutex_"}, FALSE, "none")}

\* EmulatedRequestProcessor::RequestProcessorLoop (lines 449-548):
\* process_mutex_ for the critical section, inside it control_mutex_ for
\* SetCurrentRequest or result_processor_lock_ for the error notification,
\* then WaitForVSync under control_mutex_.
RequestProcessorLoopSteps ==
    {LockStep("process", "locked", {"process_mutex_"}, {}, FALSE, "none"),
     LockStep("locked", "latch", {"control_mutex_"}, {}, FALSE, "none"),
     LockStep("latch", "done", {}, {"control_mutex_"}, FALSE, "none"),
     LockStep("locked", "notify", {"result_processor_lock_"}, {}, FALSE, "none"),
     LockStep("notify", "done", {}, {"result_processor_lock_"}, FALSE, "none"),
     LockStep("locked", "vsync", {}, {"process_mutex_"}, FALSE, "none"),
     LockStep("done", "vsync", {}, {"process_mutex_"}, FALSE, "none"),
     LockStep("vsync", "vs_wait", {"control_mutex_"}, {}, TRUE, "clear"),
     LockStep("vs_wait", "process", {"control_mutex_"}, {"control_mutex_"}, FALSE, "need")}

\* EmulatedSensor::threadLoop (lines 789-801, 852-863, 1112, 1159, 1264-1284):
\* control_mutex_ for the swap and the signal, result_processor_lock_ in the
\* shutter notification (NotifyHwlPipelineMessage), control_mutex_ to queue a
\* JPEG job, result_processor_lock_ in the result callback
\* (NotifyHwlPipelineResult).
ThreadLoopSteps ==
    {LockStep("swap", "capture", {"control_mutex_"}, {"control_mutex_"}, FALSE, "set"),
     LockStep("capture", "shutter", {"result_processor_lock_"}, {}, FALSE, "none"),
     LockStep("shutter", "synthesis", {}, {"result_processor_lock_"}, FALSE, "none"),
     LockStep("capture", "synthesis", {}, {}, FALSE, "none"),
     LockStep("synthesis", "readout", {"control_mutex_"}, {"control_mutex_"}, FALSE, "none"),
     LockStep("synthesis", "readout", {}, {}, FALSE, "none"),
     LockStep("readout", "result", {"result_processor_lock_"}, {}, FALSE, "none"),
     LockStep("result", "swap", {}, {"result_processor_lock_"}, FALSE, "none"),
     LockStep("readout", "swap", {}, {}, FALSE, "none")}

StepsOf(t) ==
    CASE t = "submit" -> ProcessRequestsSteps
      [] t = "flush" -> FlushSteps
      [] t = "configure" -> ConfigureStreamsSteps
      [] t = "loop" -> RequestProcessorLoopSteps
      [] t = "sensor" -> ThreadLoopSteps

Holders(l) == {t \in Threads : l \in held[t]}

\* Who keeps thread t from taking lock l: any holder of a mutex;
\* for configure_shared_mutex_, any holder when t is ConfigureStreams
\* (std::lock_guard), and ConfigureStreams, holding it or announced, when t
\* takes it shared (std::shared_lock).
LockedOut(t, l) ==
    IF l = "configure_shared_mutex_" /\ t # "configure"
    THEN (Holders(l) \cap {"configure", t})
            \cup (IF lock_pc["configure"] = "entering" THEN {"configure"} ELSE {})
    ELSE Holders(l)

\* Mutant of WaitRelative: the wait keeps the mutex.
WaitRelative_KeepsMutex(locks) == locks

\* vsync_.waitRelative(control_mutex_, reltime), line 705: the thread blocks
\* with control_mutex_ released and holds it again when the wait returns.
WaitRelative(locks) == locks \ {"control_mutex_"}

LockStepEnabled(t, step) ==
    /\ lock_pc[t] = step.from
    /\ \A l \in step.acquire : LockedOut(t, l) = {}
    /\ step.vsync = "need" => lock_got_vsync

TakeLockStep(t, step) ==
    /\ LockStepEnabled(t, step)
    /\ held' = [held EXCEPT ![t] =
                    LET locks == (@ \cup step.acquire) \ step.release
                    IN IF step.wait THEN WaitRelative(locks) ELSE locks]
    /\ lock_pc' = [lock_pc EXCEPT ![t] = step.to]
    /\ lock_got_vsync' = CASE step.vsync = "clear" -> FALSE
                            [] step.vsync = "set" -> TRUE
                            [] OTHER -> lock_got_vsync
    /\ UNCHANGED <<hwl_vars, block_vars, session_vars, zsl_vars, ownership_vars,
                   pacing_vars>>

LockedProcessRequests == \E step \in ProcessRequestsSteps : TakeLockStep("submit", step)
LockedFlush == \E step \in FlushSteps : TakeLockStep("flush", step)
LockedConfigureStreams == \E step \in ConfigureStreamsSteps : TakeLockStep("configure", step)
LockedRequestProcessorLoop ==
    \E step \in RequestProcessorLoopSteps : TakeLockStep("loop", step)
LockedThreadLoop == \E step \in ThreadLoopSteps : TakeLockStep("sensor", step)

NextLocks ==
    \/ LockedProcessRequests
    \/ LockedFlush
    \/ LockedConfigureStreams
    \/ LockedRequestProcessorLoop
    \/ LockedThreadLoop

SpecLocks == InitBlock /\ [][NextLocks]_vars


\* ==================================================================== claims
Indexes == 1..Len(events)

\* C1: the pending queue never holds more than kPipelineDepth requests.
C1_PendingWithinDepth == Len(pending_requests_) <= kPipelineDepth

\* C2: a submitter is suspended only while the queue exceeds the depth (a
\* slot freed by the loop or by Flush resumes it), and its wait times out only
\* while the queue exceeds the depth.
C2_SuspendedOnlyWhileFull ==
    /\ (client_pc = "cv_wait" /\ process_mutex_ = "free")
          => Len(pending_requests_) > kPipelineDepth
    /\ client_pc = "cv_timeout" => timeout_len > kPipelineDepth

\* C3: a call whose admission wait timed out returns TIMED_OUT and its request
\* is in neither the pending queue nor the deferred-settings queue.
C3_TimedOutNotQueued ==
    /\ \A f \in timed_out :
          f \notin FramesOf(pending_requests_) \cup FramesOf(override_settings_)
    /\ submit_ret.status = "TIMED_OUT" => submit_ret.frame_number \in timed_out
    /\ \A f \in timed_out : \A i \in Indexes : events[i].frame # f

C3_Witness ==
    /\ submit_ret.status = "TIMED_OUT"
    /\ submit_ret.frame_number \in timed_out
    /\ pending_requests_ # <<>>

\* C4: for every frame the final result is delivered at most once, and when
\* partial results are supported the partial result is delivered before it
\* and never after it.
C4_PartialBeforeSingleFinal ==
    \A j \in Indexes :
        events[j].type = "final" =>
            /\ \A k \in (j + 1)..Len(events) :
                  events[k].frame = events[j].frame => ~IsResult(events[k])
            /\ partial_supported =>
                  \E i \in 1..(j - 1) :
                      events[i].frame = events[j].frame /\ events[i].type = "partial"

\* An iteration that returned its results before the sleep has made the second
\* ReturnResults call too.
C4_Witness ==
    /\ sensor_pc = "swap"
    /\ returned_early
    /\ callback
    /\ partial_supported
    /\ Count(events, "final", next.output_buffers) = 1
    /\ Count(events, "partial", next.output_buffers) = 1

\* C5: whenever a partial or final result of a frame is delivered, the shutter
\* notification of that frame was delivered earlier.
C5_ShutterBeforeResults ==
    \A j \in Indexes :
        IsResult(events[j]) =>
            \E i \in 1..(j - 1) :
                events[i].frame = events[j].frame /\ events[i].type = "shutter"

C5_Witness ==
    \E j \in Indexes : \E i \in 1..(j - 1) :
        /\ events[j].type = "final"
        /\ events[i].type = "partial"
        /\ events[i].frame = events[j].frame

\* C6: results are delivered in increasing frame-number order, the partial
\* and the final result of a frame at most once each.
C6_ResultsInFrameOrder ==
    LET results == SelectSeq(events, IsResult)
    IN \A i \in 1..Len(results) : \A j \in (i + 1)..Len(results) :
           \/ results[i].frame < results[j].frame
           \/ /\ results[i].frame = results[j].frame
              /\ results[i].type = "partial"
              /\ results[j].type = "final"

C6_Witness ==
    \E i \in Indexes : \E j \in (i + 1)..Len(events) :
        /\ events[i].type = "final"
        /\ events[j].type = "final"
        /\ events[i].frame # events[j].frame

ErrorCount(f) == Count(events, "error_request", f) + Count(events, "error_result", f)

\* C7: a Flush called with K requests queued and one frame held by the sensor
\* has sent exactly K + 1 error notifications when it returns, none of them
\* twice for a frame.
C7_FlushNotifiesAllAborted ==
    (flush_count > 0 /\ flush_pc = "idle" /\ Cardinality(flush_inflight) = 1) =>
        /\ flush_errors = Cardinality(flush_queued) + 1
        /\ \A f \in flush_queued \cup flush_inflight : ErrorCount(f) = 1

\* C8: once Flush has returned, the requests it found queued are gone from
\* the pending queue, and no frame it aborted (queued, latched or being
\* synthesized when it was called) ever gets a result callback.
C8_NoResultForAborted ==
    /\ (flush_count > 0 /\ flush_pc = "idle") =>
          FramesOf(pending_requests_) \cap flush_queued = {}
    /\ \A j \in Indexes :
          IsResult(events[j]) => events[j].frame \notin flush_queued \cup flush_inflight

\* C9: in a Flush call whose wait for the start of readout has timed out
\* (flush_timeout_seen: the wait was left by a timeout), Flush has stopped
\* waiting and its sensor flush returned TIMED_OUT.
C9_FlushWaitBounded ==
    flush_timeout_seen => (flush_pc = "drain" /\ flush_ret = "TIMED_OUT")

AheadOf(entry, F) ==
    entry.frame_number < F \/ entry.frame_number - F >= kZoomSpeedup

FirstAhead(queue, F, i) ==
    /\ AheadOf(queue[i], F)
    /\ \A k \in 1..(i - 1) : ~AheadOf(queue[k], F)

C11_ConfigureOneShot ==
    [][/\ is_configured_ =>
            /\ is_configured_'
            /\ configure_calls' = configure_calls
            /\ pipeline_id_' = pipeline_id_
            /\ (block_ret'.op = "ConfigureStreams" /\ block_ret' # block_ret)
                  => block_ret'.status = "ALREADY_EXISTS"
       /\ (configure_calls' # configure_calls /\ block_ret'.status # "OK")
             => ~is_configured_']_vars

\* A failed configuration, a successful one and a third call.
C11_Witness ==
    /\ block_ret = BlockRet("ConfigureStreams", "ALREADY_EXISTS")
    /\ is_configured_
    /\ configure_calls = 2
    /\ pipeline_id_ = 2

\* C12 as stated: a ProcessRequests call on an unconfigured block returns
\* NO_INIT and nothing is submitted to the backend.
C12_UnconfiguredIsNoInit ==
    (block_ret.op = "ProcessRequests" /\ ~is_configured_) =>
        (block_ret.status = "NO_INIT" /\ submitted = <<>>)

\* C12 amended: a ProcessRequests call on an unconfigured block submits
\* nothing and fails: with BAD_VALUE unless it carries exactly one request,
\* else with NO_INIT when no result processor is set, else with the error of
\* AddPendingRequests, else with NO_INIT.
C12_UnconfiguredFails ==
    (block_ret.op = "ProcessRequests" /\ ~is_configured_) =>
        /\ submitted = <<>>
        /\ block_ret.status # "OK"
        /\ block_ret.status =
              IF block_call.size # 1 THEN "BAD_VALUE"
              ELSE IF ~block_call.processor THEN "NO_INIT"
              ELSE IF block_call.add_res # "OK" THEN block_call.add_res
              ELSE "NO_INIT"

C12_Witness ==
    /\ ~is_configured_
    /\ block_ret = BlockRet("ProcessRequests", "NO_INIT")
    /\ block_call.size = 1
    /\ block_call.processor
    /\ rp_pending # <<>>

\* C13: the backend never holds more than one submitted request whose result
\* has not reached the result processor.
C13_SingleOutstanding == Cardinality(Outstanding) <= 1

\* C14: what the backend delivers while no result processor is set is not
\* forwarded; while one is set, every delivered result that converts, and
\* every message, is forwarded exactly once.
C14_DroppedOrForwardedOnce ==
    LET Times(frame) ==
            Cardinality({p \in (1..Len(rp_received)) \X (1..Len(delivered.items)) :
                            /\ p[2] <= Len(rp_received[p[1]].frames)
                            /\ rp_received[p[1]].frames[p[2]] = frame})
    IN delivered.kind # "none" =>
           IF ~delivered.processor THEN rp_received = <<>>
           ELSE \A i \in 1..Len(delivered.items) :
                    delivered.items[i].valid => Times(delivered.items[i].frame) = 1

\* C15: an import of a handle for a key that is mapped to a different handle
\* returns BAD_VALUE and leaves the whole map as it was.
C15_MismatchKeepsMap ==
    [][LET o == cache_op'
           mapped == HandlesOf(imported_buffer_handle_map_,
                               BufferCache(o.stream_id, o.buffer_id))
       IN (o.op = "import" /\ mapped # {} /\ o.handle \notin mapped) =>
              /\ o.status = "BAD_VALUE"
              /\ imported_buffer_handle_map_' = imported_buffer_handle_map_]_vars

C15_Witness ==
    /\ cache_op.op = "import"
    /\ cache_op.status = "BAD_VALUE"
    /\ \E e \in imported_buffer_handle_map_ :
          /\ e.stream_id = cache_op.stream_id
          /\ e.buffer_id = cache_op.buffer_id
          /\ e.handle # cache_op.handle
    /\ Cardinality(imported_buffer_handle_map_) > 1

\* C16: an import of the handle a key is already mapped to is a hit that
\* returns OK and leaves the map as it was, the key mapped to that one handle.
C16_ImportIdempotent ==
    [][LET o == cache_op'
           buffer_cache == BufferCache(o.stream_id, o.buffer_id)
       IN (o.op = "import" /\ HandlesOf(imported_buffer_handle_map_, buffer_cache) = {o.handle}) =>
              /\ o.status = "OK"
              /\ o.hit
              /\ imported_buffer_handle_map_' = imported_buffer_handle_map_
              /\ HandlesOf(imported_buffer_handle_map_', buffer_cache) = {o.handle}]_vars

C16_Witness ==
    /\ cache_op.op = "import"
    /\ cache_op.hit
    /\ cache_op.status = "OK"
    /\ HandlesOf(imported_buffer_handle_map_,
                 BufferCache(cache_op.stream_id, cache_op.buffer_id)) = {cache_op.handle}

\* C17: after the streams that left the configuration are evicted, no entry
\* of such a stream remains and the entries of every other stream are as
\* before.
C17_EvictionExhaustiveLocal ==
    [][LET stale == configured_streams_map_ \ configured_streams_map_'
       IN cache_op'.op = "cleanup" =>
              /\ \A e \in imported_buffer_handle_map_' : e.stream_id \notin stale
              /\ {e \in imported_buffer_handle_map_' : e.stream_id \notin stale}
                    = {e \in imported_buffer_handle_map_ : e.stream_id \notin stale}]_vars

C17_Witness ==
    /\ cache_op.op = "cleanup"
    /\ cache_op.freed # {}
    /\ imported_buffer_handle_map_ # {}

\* C18: every expected (frame, stream) pair is removed from its record exactly
\* once, and a resolve of a pair that is not outstanding is reported as an
\* error and changes nothing.
C18_CompletionExact ==
    /\ \A r \in expected_streams : \A stream_id \in r.streams :
           ResolveCount(<<r.frame_number, stream_id>>) =
               IF stream_id \in PendingStreams(pending_request_streams_, r.frame_number)
               THEN 0 ELSE 1
    /\ \A pair \in DOMAIN resolve_count :
           \E r \in expected_streams : r.frame_number = pair[1] /\ pair[2] \in r.streams
    /\ (tracker_op.op = "resolve" /\ ~tracker_op.outstanding) =>
           tracker_op.status # "OK"

C18_Witness ==
    /\ tracker_op.op = "resolve"
    /\ ~tracker_op.outstanding
    /\ tracker_op.status = "UNKNOWN_ERROR"
    /\ ResolveCount(<<tracker_op.frame_number, tracker_op.stream_id>>) = 1
    /\ PendingStreams(pending_request_streams_, tracker_op.frame_number) # {}

\* C19: a record exists exactly while its frame has outstanding stream ids;
\* the resolve that empties the set erases the record and emits the
\* completion, and the flush notification is emitted only when no record is
\* left.
C19_RecordWhileOutstanding ==
    /\ \A r \in pending_request_streams_ : r.streams # {}
    /\ \A r \in expected_streams :
           (RecordsOf(pending_request_streams_, r.frame_number) # {}) <=>
               (\E stream_id \in r.streams : ResolveCount(<<r.frame_number, stream_id>>) = 0)
    /\ (tracker_op.op = "resolve" /\ tracker_op.status = "OK") =>
           (tracker_op.completion <=>
               RecordsOf(pending_request_streams_, tracker_op.frame_number) = {})
    /\ tracker_op.completion => (tracker_op.op = "resolve" /\ tracker_op.status = "OK")
    /\ tracker_op.flush => pending_request_streams_ = {}

C19_Witness ==
    /\ tracker_op.op = "resolve"
    /\ tracker_op.completion
    /\ ~tracker_op.flush
    /\ RecordsOf(pending_request_streams_, tracker_op.frame_number) = {}
    /\ pending_request_streams_ # {}

\* The frame has been handed to SetCurrentRequest and is latched or in work.
Latched(f) == current.output_buffers = f \/ next.output_buffers = f

\* C20: a request whose output buffers are empty or were not all obtained (a
\* buffer request or an acquire fence wait failed) is never handed to
\* SetCurrentRequest, gets no shutter, and gets exactly one error
\* notification once it has left the pending queue.
C20_FailedBuffersShortCircuited ==
    \A r \in buffer_fate :
        /\ ~Latched(r.frame_number)
        /\ Count(events, "shutter", r.frame_number) = 0
        /\ ErrorCount(r.frame_number) <= 1
        /\ r.frame_number \notin FramesOf(pending_requests_) =>
               ErrorCount(r.frame_number) = 1

\* C20, amended: a request with no output buffers is refused with NO_MEMORY,
\* is not queued and is notified of nothing; a request of which a buffer could
\* not be requested, or every buffer failed its acquire fence wait, is never
\* handed to SetCurrentRequest, gets no shutter and no result, and gets
\* exactly one error result notification once it has left the pending queue.
C20_UnobtainableShortCircuited ==
    \A r \in buffer_fate :
        LET f == r.frame_number
        IN /\ r.fate = "empty" =>
                  /\ f \notin FramesOf(pending_requests_)
                  /\ ~Latched(f)
                  /\ \A i \in Indexes : events[i].frame # f
                  /\ submit_ret.frame_number = f => submit_ret.status = "NO_MEMORY"
           /\ r.fate \in {"request_failed", "fence_failed"} =>
                  /\ ~Latched(f)
                  /\ \A i \in Indexes : events[i].frame = f => events[i].type = "error_result"
                  /\ Count(events, "error_result", f) <= 1
                  /\ f \notin FramesOf(pending_requests_) =>
                         Count(events, "error_result", f) = 1

C20_Witness ==
    \E a, b, c \in buffer_fate :
        /\ a.fate = "empty"
        /\ b.fate = "request_failed"
        /\ c.fate = "fence_failed"
        /\ pending_requests_ = <<>>
        /\ Count(events, "error_result", b.frame_number) = 1
        /\ Count(events, "error_result", c.frame_number) = 1
        /\ submit_ret.frame_number = a.frame_number

\* C21: the client never receives the error notification of a frame that
\* failed before synthesis ahead of a result of an earlier frame.
C21_ErrorAfterEarlierResults ==
    \A i \in Indexes : \A j \in Indexes :
        (i < j /\ events[i].type = "error_result" /\ IsResult(events[j])) =>
            events[j].frame > events[i].frame

C23_AbsentSettingsUseCached ==
    [][(/\ loop_pc = "process"
        /\ pending_requests_ # <<>>
        /\ Head(pending_requests_).settings = NullSettings
        /\ Head(pending_requests_).output_buffers > 0
        /\ (loop_pc' # loop_pc \/ crashed' # crashed))
       => LET frame_number == Head(pending_requests_).frame_number
          IN IF last_settings_ # NullSettings
             THEN /\ current' = SetCurrentRequest(frame_number)
                  /\ events' = events
                  /\ ~crashed'
             ELSE /\ events' = Append(events, Event("error_result", frame_number))
                  /\ current' = current
                  /\ ~crashed']_vars

\* C24: the internal stream has been registered exactly once for every
\* ConfigureStreams call, and no result that reaches the caller holds a buffer
\* of a registered internal stream.
C24_InjectedStreamHidden ==
    /\ zsl_registrations = zsl_configures
    /\ Cardinality(internal_streams) = zsl_configures
    /\ zsl_result.streams \cap internal_streams = {}

\* The block delivered a result holding the internal stream's buffer together
\* with a buffer of a stream of the caller, after the second ConfigureStreams.
C24_Witness ==
    /\ zsl_configures = 2
    /\ stream_id_ \in zsl_result.raw
    /\ zsl_result.streams # {}

JitterTolerance == time_accuracy + MaxOvershoot

\* C26: the delivery times of consecutive frames differ by the frame duration,
\* give or take the jitter tolerance.
C26_DeliveriesPaced ==
    \A k \in 1..(Len(deliveries) - 1) :
        /\ deliveries[k + 1] - deliveries[k] <= frame_duration + JitterTolerance
        /\ deliveries[k + 1] - deliveries[k] >= frame_duration - JitterTolerance

\* The entries of a deferred-settings queue are in submission order: their
\* frame numbers increase from the head.
InSubmissionOrder(queue) ==
    \A i \in 1..Len(queue) : \A j \in 1..Len(queue) :
        i < j => queue[i].frame_number < queue[j].frame_number

\* The number of entries the last override step dequeued.
Dequeued == Len(last_apply.queue) - Len(last_apply.after)

\* C27: the deferred-settings queue holds its entries in submission order, and
\* the override step removes a prefix of it: what it leaves is the queue it
\* found without its first entries, in the same order.
C27_OverrideFifo ==
    /\ InSubmissionOrder(override_settings_)
    /\ InSubmissionOrder(last_apply.queue)
    /\ Dequeued >= 0
    /\ last_apply.after = SubSeq(last_apply.queue, Dequeued + 1, Len(last_apply.queue))

\* The override step dequeued some entries of a queue and left others.
C27_Witness ==
    /\ Dequeued >= 2
    /\ last_apply.after # <<>>

\* The settings the i-th entry of the queue the last override step found
\* stands for: its own, or for a "repeat previous" entry those of the last
\* entry with settings before it, or the last override of before the call.
Carried(i) ==
    LET Q == last_apply.queue
        with == {k \in 1..i : Q[k].settings # NullSettings}
    IN IF with = {} THEN last_apply.last_override
       ELSE Q[CHOOSE k \in with : \A l \in with : l <= k].settings

\* The dequeued entries whose override is ZOOM.
ActiveDequeued == {i \in 1..Dequeued : Carried(i).ovr = "zoom"}

\* C28: the override step applies the value of at most one entry, and every
\* entry whose target is more than kZoomSpeedup frames ahead of the serviced
\* frame is still queued after it.
C28_NearestDueOnly ==
    last_apply.with_settings =>
        /\ Cardinality(ActiveDequeued) <= 1
        /\ \A i \in 1..Len(last_apply.queue) :
              last_apply.queue[i].frame_number > last_apply.frame_number + kZoomSpeedup
                  => \E j \in 1..Len(last_apply.after) :
                         last_apply.after[j] = last_apply.queue[i]

\* C28, amended: the override step dequeues the entries up to and including
\* the first one whose target is at least kZoomSpeedup frames ahead of the
\* serviced frame (all of them when there is none), every entry behind that
\* one is still queued, and the serviced settings carry the value of the last
\* dequeued entry whose override is ZOOM.
C28_DequeuesThroughFirstAhead ==
    LET F == last_apply.frame_number
        Q == last_apply.queue
    IN last_apply.with_settings =>
        /\ \A i \in 1..Len(Q) : FirstAhead(Q, F, i) => Dequeued = i
        /\ (\A i \in 1..Len(Q) : ~AheadOf(Q[i], F)) => Dequeued = Len(Q)
        /\ ActiveDequeued # {} =>
              LET last == CHOOSE i \in ActiveDequeued : \A k \in ActiveDequeued : k <= i
              IN /\ last_settings_.zoom = Carried(last).zoom
                 /\ last_settings_.ovr = "zoom"

\* Two queued zoom entries were dequeued by one call and a third, further
\* ahead, was left.
C28_Witness ==
    /\ last_apply.with_settings
    /\ Cardinality(ActiveDequeued) >= 2
    /\ last_apply.after # <<>>

\* C29: the override step returns 0 when it finds the queue empty and when
\* none of the entries it dequeues carries the ZOOM override, and a non-zero
\* return value is the target of a dequeued entry that carries it.
C29_ReturnIsActiveTarget ==
    last_apply.frame_number # 0 =>
        /\ last_apply.queue = <<>> => last_apply.ret = 0
        /\ ActiveDequeued = {} => last_apply.ret = 0
        /\ last_apply.ret # 0 =>
              \E i \in ActiveDequeued : last_apply.queue[i].frame_number = last_apply.ret

\* A call dequeued an entry without the ZOOM override and then one with it,
\* whose target it returned.
C29_Witness ==
    /\ last_apply.ret # 0
    /\ Dequeued >= 2
    /\ \E i \in 1..Dequeued : Carried(i).ovr # "zoom"

\* C30: the signal of the sensor loop at the start of readout releases every
\* thread that is waiting for it, and a thread leaves its wait only with
\* got_vsync_ set by a signal sent after it started waiting.
C30_VSyncBroadcast ==
    [][/\ (sensor_pc = "swap" /\ sensor_pc' = "capture") =>
              /\ loop_pc = "vs_wait" => loop_pc' = "vs_woken"
              /\ flush_pc = "vs_wait" => flush_pc' = "vs_woken"
       /\ (loop_pc = "vs_woken" /\ loop_pc' = "process") => got_vsync_
       /\ (flush_pc \in {"vs_woken", "vs_timeout"} /\ flush_pc' = "drain") => got_vsync_]_vars

\* The members of a latched set that are set belong to one request.
Unmixed(latch) ==
    \A a \in {latch.settings, latch.result, latch.output_buffers, latch.partial_result} :
        \A b \in {latch.settings, latch.result, latch.output_buffers, latch.partial_result} :
            (a # 0 /\ b # 0) => a = b

\* C31: the latched set is installed and taken as a whole: the members of the
\* sensor's latched set are all of one request or all null, the set an
\* iteration works on never mixes two requests, and no request is
\* synthesized (its shutter sent) by more than one iteration.
C31_LatchedSetAtomic ==
    /\ current \in {NullLatch} \cup {Latch(f) : f \in 1..MaxSyncFrame}
    /\ Unmixed(next)
    /\ \A f \in 1..MaxSyncFrame : Count(events, "shutter", f) <= 1

\* Frame 1 has been synthesized and returned, frame 2 is being synthesized,
\* and frame 3 is latched.
C31_Witness ==
    /\ Count(events, "final", 1) = 1
    /\ Count(events, "shutter", 2) = 1
    /\ next.output_buffers = 2
    /\ current = Latch(3)

\* The steps made with control_mutex_ held: the swap of the sensor loop, a
\* change of the latched set (SetCurrentRequest, or Flush clearing it), the
\* entry and the return of a wait for vsync, and the part of
\* EmulatedSensor::Flush that follows its wait.
HoldsControlMutex ==
    \/ sensor_pc = "swap" /\ sensor_pc' = "capture"
    \/ current' # current
    \/ loop_pc = "vsync" /\ loop_pc' = "vs_wait"
    \/ loop_pc = "vs_woken" /\ loop_pc' # loop_pc
    \/ flush_pc = "idle" /\ flush_pc' = "vs_wait"
    \/ flush_pc \in {"vs_woken", "vs_timeout"} /\ flush_pc' # flush_pc

SensorEmits ==
    /\ sensor_pc' # sensor_pc
    /\ Len(events') > Len(events)
    /\ events'[Len(events')].type \in {"shutter", "partial", "final"}

\* C33: the sensor loop sends a shutter notification or a result only in an
\* iteration whose swap took a latched request, and only for that request; an
\* iteration that found nothing latched leaves the log as it is.
C33_IdleIterationSilent ==
    [][/\ SensorEmits =>
            /\ next.output_buffers \in 1..MaxSyncFrame
            /\ \A i \in (Len(events) + 1)..Len(events') :
                  events'[i].frame = next.output_buffers
       /\ (sensor_pc' # sensor_pc /\ sensor_pc # "swap" /\ next = NullLatch)
            => events' = events]_vars

\* An iteration that found nothing latched has run to its sleep, after the
\* iteration of frame 1 sent its shutter and its result.
C33_Witness ==
    /\ sensor_pc = "slept"
    /\ next = NullLatch
    /\ Count(events, "shutter", 1) = 1
    /\ Count(events, "final", 1) = 1

\* C34: a step that latches a request starts from an empty latched set: the
\* sensor loop has swapped the request latched before, so no latched request
\* is overwritten, whatever the submitters and the Flush caller do.
C34_LatchNeverOverwritten ==
    [][(current' # current /\ current' # NullLatch) => current = NullLatch]_vars

\* Frame 2 is latched after frame 1 was taken by the sensor loop, and a Flush
\* caller has been through its wait.
C34_Witness ==
    /\ current = Latch(2)
    /\ Count(events, "shutter", 1) = 1
    /\ flush_count = 1
    /\ flush_pc = "idle"

\* C35: of a batch delivered while a result processor is set, nothing is
\* forwarded when one of its results does not convert; otherwise the result
\* processor gets the whole batch once, as one batch in the order of delivery.
C35_BatchAllOrNothing ==
    (delivered.kind = "batch" /\ delivered.processor) =>
        IF \E i \in 1..Len(delivered.items) : ~delivered.items[i].valid
        THEN rp_received = <<>>
        ELSE rp_received =
                <<Forwarded("batch", [i \in 1..Len(delivered.items) |->
                                         delivered.items[i].frame])>>

\* A batch of three results whose second does not convert was delivered to a
\* block with a result processor.
C35_Witness ==
    /\ delivered.kind = "batch"
    /\ delivered.processor
    /\ Len(delivered.items) = 3
    /\ delivered.items[1].valid
    /\ ~delivered.items[2].valid
    /\ delivered.items[3].valid
    /\ rp_received = <<>>

\* C36: a ProcessRequests call that fails before it reaches the backend's
\* SubmitRequests (request count, result processor, configuration, request
\* conversion) leaves the pending requests of the result processor as they
\* were.
C36_FailedCallLeavesNoTrace ==
    [][(/\ block_ret'.op = "ProcessRequests"
        /\ block_ret'.status # "OK"
        /\ submitted' = submitted)
          => rp_pending' = rp_pending]_vars

\* C37: when the loop is about to service a request, the override step it
\* will run finds a last-override baseline for every "repeat previous" entry
\* it reads: it does not dereference a null last_override_settings_.
C37_RepeatEntryHasBaseline ==
    (loop_pc = "process" /\ pending_requests_ # <<>> /\ ~crashed) =>
        LET request == Head(pending_requests_)
            request_settings == IF request.settings # NullSettings
                                THEN request.settings ELSE last_settings_
        IN ~ApplyOverrideSettings(override_settings_, request.frame_number,
                                  request_settings, last_override_settings_).crash

\* C38: every entry the override step finds in the deferred-settings queue
\* targets the serviced frame or a later one, so that the unsigned gap does
\* not wrap around, and a non-zero override frame number it returns is not
\* smaller than the serviced frame's number.
C38_QueueTargetsNotBehind ==
    last_apply.frame_number # 0 =>
        /\ \A i \in 1..Len(last_apply.queue) :
              last_apply.queue[i].frame_number >= last_apply.frame_number
        /\ last_apply.ret # 0 => last_apply.ret >= last_apply.frame_number

\* The order in which the locks are taken when they are nested.
LockRank(l) ==
    CASE l = "configure_shared_mutex_" -> 1
      [] l = "process_mutex_" -> 2
      [] l = "control_mutex_" -> 3
      [] l = "result_processor_lock_" -> 4

\* The threads that keep thread t from its next step: the holders of the
\* locks its steps need, and the sensor thread for a wait that needs
\* got_vsync_; none when one of its steps can be taken.
Blockers(t) ==
    LET steps == {step \in StepsOf(t) : step.from = lock_pc[t]}
    IN IF \E step \in steps : LockStepEnabled(t, step)
       THEN {}
       ELSE UNION {UNION {LockedOut(t, l) : l \in step.acquire}
                      \cup (IF step.vsync = "need" /\ ~lock_got_vsync
                            THEN {"sensor"} ELSE {}) : step \in steps}

RECURSIVE WaitsOn(_, _)
WaitsOn(threads, n) ==
    IF n = 0 THEN threads
    ELSE WaitsOn(threads \cup UNION {Blockers(u) : u \in threads}, n - 1)

\* C39: a thread that takes a lock while it holds another takes them in the
\* order configure_shared_mutex_, process_mutex_, control_mutex_,
\* result_processor_lock_, and no thread waits, directly or through other
\* waiting threads, for a thread that waits for it: some thread can always
\* take a step.
C39_NoCyclicWait ==
    /\ \A t \in Threads : \A step \in StepsOf(t) :
          step.from = lock_pc[t] =>
              \A h \in held[t] : \A l \in step.acquire : LockRank(h) < LockRank(l)
    /\ \A t \in Threads : t \notin WaitsOn(Blockers(t), Cardinality(Threads))
    /\ \E t \in Threads : Blockers(t) = {}

\* Flush waits for the vsync with process_mutex_ held while the loop and the
\* submitter wait for process_mutex_, ConfigureStreams waits for the
\* shared holders to leave, and the sensor loop is in a result callback.
C39_Witness ==
    /\ lock_pc["flush"] = "vs_wait"
    /\ ~lock_got_vsync
    /\ lock_pc["loop"] = "process"
    /\ lock_pc["submit"] = "configured"
    /\ lock_pc["configure"] = "entering"
    /\ lock_pc["sensor"] = "result"
    /\ Blockers("loop") = {"flush"}
    /\ Blockers("configure") = {"flush", "submit"}

====
